---- MODULE Spec2Model ----
(***************************************************************************)
(* Model of the arbitrage bot's core: execution engine, risk manager,     *)
(* position sizer and portfolio (src/src/core).                           *)
(*                                                                         *)
(* Units.  Money that the code keeps as floats is kept here as integers:  *)
(* USD amounts are whole dollars, prices are cents, fees and trade PnL    *)
(* are in 1/10000 USD ("pips"), so that qty * edge_bps / 10000 USD is the  *)
(* integer qty * edge_bps pips.  Sizes that the code obtains by division   *)
(* are exact rationals <<numerator, denominator>>.                         *)
(***************************************************************************)
EXTENDS Integers, Sequences, FiniteSets, TLC

VARIABLES
    \* ExecutionEngine
    trades,      \* every Trade object created, by creation index
    active,      \* _active_trades: indices of trades
    history,     \* _trade_history: sequence of indices
    fills,       \* per trade, what _execute_both_legs returned
    orders,      \* the place_order calls of the latest call, in order
    call,        \* frame of the execute_opportunity call in flight
    returned,    \* per trade, what execute_opportunity returned
    \* RiskManager
    now,                         \* datetime.utcnow(), in minutes
    error_counts,                \* _error_counts[venue]: timestamps
    latency_measurements,        \* _latency_measurements[venue]
    circuit_breakers,            \* _circuit_breakers[venue]
    circuit_breaker_timestamps,  \* _circuit_breaker_timestamps
    pnl_history,                 \* _pnl_history
    trades_history,              \* _trades_history (pnl of each trade)
    circuit_breaker_error_rate,  \* constructor argument, in percent
    last_risk,                   \* the verdict, when the last call was a check
    \* PositionSizer
    last_size,                   \* last PositionSizer call and its results
    \* Portfolio
    current_balance,
    positions,                   \* _positions[event_id][venue]
    ledger,                      \* _trades
    \* ExecutionEngine.hedge_partial_fill / cancel_trade
    engine_call,                 \* the last hedge or cancel call and its result
    connectors,                  \* self.connectors: venues that have a connector
    \* EventRegistry and the venue mappers
    events,                      \* registry.events: the event ids stored
    mappings,                    \* registry.mappings: (venue, market_id) -> event_id
    last_map,                    \* the last registry or mapper call
    \* DiscoveryEngine
    contracts_cache,             \* _contracts_cache, in insertion order
    quotes_cache,                \* _quotes_cache: contract_id -> Quote
    last_discovery,              \* the last discover_opportunities call
    \* Settings, scripts/run_live.py and LiveTradingEngine
    settings,                    \* mode and confirm_live
    live,                        \* where the live driver stands
    venue_io                     \* venue calls the live driver has made

execVars == <<trades, active, history, fills, orders, call, returned>>
riskVars == <<now, error_counts, latency_measurements, circuit_breakers,
              circuit_breaker_timestamps, pnl_history, trades_history,
              circuit_breaker_error_rate, last_risk>>
sizerVars == <<last_size>>
portfolioVars == <<current_balance, positions, ledger>>
hedgeVars == <<engine_call, connectors>>
registryVars == <<events, mappings, last_map>>
discoveryVars == <<contracts_cache, quotes_cache, last_discovery>>
liveVars == <<settings, live, venue_io>>
extVars == <<hedgeVars, registryVars, discoveryVars, liveVars>>
vars == <<execVars, riskVars, sizerVars, portfolioVars, extVars>>

----------------------------------------------------------------------------
(* Shared types (src/src/core/types.py)                                   *)

Venue == {"polymarket", "kalshi"}

OrderSide == {"BUY", "SELL"}

\* A leg of an opportunity: an OrderRequest (price in cents).
Leg(v, c, s, p) == [venue |-> v, contract_id |-> c, side |-> s, price |-> p]

\* An ArbOpportunity (notional in USD, edge in bps).
Opp(e, la, lb, bps, n) ==
    [event_id |-> e, leg_a |-> la, leg_b |-> lb, edge_bps |-> bps, notional |-> n]

----------------------------------------------------------------------------
(* ExecutionEngine (src/src/core/execution.py)                            *)

\* Bound: execute_opportunity calls modelled.
MaxTrades == 2

\* ExecutionEngine.__init__ default.
max_retries == 3

\* Fee a venue may charge on a fill, in pips.
FeeChoices == {0, 300}

\* place_order outcomes: a Fill, None, or an exception.
PlaceOutcomes ==
    [kind : {"fill"}, fee_paid : FeeChoices]
        \cup {[kind |-> "none", fee_paid |-> 0], [kind |-> "raise", fee_paid |-> 0]}

\* Python None for a Fill, and a Fill carrying the fee the venue reported.
NoFill == [filled |-> FALSE, fee_paid |-> 0]

Fill(fee) == [filled |-> TRUE, fee_paid |-> fee]

\* _execute_both_legs' return value: None, or the list [fill_a, fill_b].
NoList == [list |-> FALSE, a |-> NoFill, b |-> NoFill]

FillList(fa, fb) == [list |-> TRUE, a |-> fa, b |-> fb]

\* Venues that have a connector in self.connectors.
Connectors == connectors

ExecOpportunities ==
    { Opp("E1", Leg("polymarket", "pm-yes", "BUY", 40),
                Leg("kalshi", "k-no", "BUY", 50), 1000, 100),
      Opp("E2", Leg("kalshi", "k-yes", "BUY", 45),
                Leg("polymarket", "pm-no", "BUY", 52), 300, 100) }

ExecSizes == {10}

estimate_liquidity(order_request) == 1000

\* An engine that always places leg A first.
LegAFirst(opp) == "a"

\* Which leg _execute_both_legs places first.
FirstLeg(opp) ==
    IF estimate_liquidity(opp.leg_a) < estimate_liquidity(opp.leg_b) THEN "a" ELSE "b"

OtherLeg(l) == IF l = "a" THEN "b" ELSE "a"

LegOf(opp, l) == IF l = "a" THEN opp.leg_a ELSE opp.leg_b

\* A retry loop that lets an exception out on whatever attempt it comes.
StepRaisingAtOnce(attempt, outcome) ==
    CASE outcome.kind = "fill" -> "return_fill"
      [] outcome.kind = "none" ->
            IF attempt < max_retries - 1 THEN "retry" ELSE "return_none"
      [] OTHER -> "raise"

\* One pass of _execute_leg's retry loop, given the attempt number
\* (0-based) and what place_order did: what the loop does next.
execute_leg_step(attempt, outcome) ==
    CASE outcome.kind = "fill" -> "return_fill"
      [] outcome.kind = "none" ->
            IF attempt < max_retries - 1 THEN "retry" ELSE "return_none"
      [] OTHER ->
            IF attempt < max_retries - 1 THEN "retry" ELSE "raise"

\* An engine that places the other leg whatever the first leg did.
AlwaysSecondLeg(fill) == "second"

\* _execute_both_legs after the first leg's _execute_leg returned `fill`:
\* go on to the other leg, or return None.

after_first_leg(fill) == IF fill.filled THEN "second" ELSE "return_none"

\* Python truthiness of `fills` in `if fills:` - None is false, a
\* two-element list is true whatever it holds.
fills_truthy(fl) == fl.list

\* _calculate_trade_pnl, in pips.
calculate_trade_pnl(trade, fl) ==
    IF ~fl.a.filled \/ ~fl.b.filled
    THEN 0
    ELSE trade.qty * trade.edge_bps - (trade.fee_a + trade.fee_b)

NewTrade(opp, size) ==
    [event_id |-> opp.event_id,
     venue_a |-> opp.leg_a.venue, venue_b |-> opp.leg_b.venue,
     contract_a |-> opp.leg_a.contract_id, contract_b |-> opp.leg_b.contract_id,
     side_a |-> opp.leg_a.side, side_b |-> opp.leg_b.side,
     qty |-> size, price_a |-> opp.leg_a.price, price_b |-> opp.leg_b.price,
     fee_a |-> 0, fee_b |-> 0, edge_bps |-> opp.edge_bps, pnl |-> 0,
     status |-> "pending", extra |-> "none"]

\* execute_opportunity lines 75-96: the trade after `fills` came back.
settle_trade(trade, fl) ==
    IF fills_truthy(fl)
    THEN LET t1 == [trade EXCEPT
                      !.fee_a = IF fl.a.filled THEN fl.a.fee_paid ELSE 0,
                      !.fee_b = IF fl.b.filled THEN fl.b.fee_paid ELSE 0,
                      !.status = "filled"]
         IN [t1 EXCEPT !.pnl = calculate_trade_pnl(t1, fl)]
    ELSE [trade EXCEPT !.status = "failed"]

\* An except branch that leaves the trade as it was.
KeepPending(trade) == trade

\* execute_opportunity lines 98-106: the except branch.
fail_trade(trade) == [trade EXCEPT !.status = "failed", !.extra = "error"]

Idle == [pc |-> "idle", tid |-> 0, first |-> "a", leg |-> "a", attempt |-> 0]

InitExec ==
    /\ trades = <<>>
    /\ active = {}
    /\ history = <<>>
    /\ fills = <<>>
    /\ orders = <<>>
    /\ returned = <<>>
    /\ call = Idle

\* _execute_leg lines 144-146: a leg whose venue has no connector raises.
HasConnector(leg) == leg.venue \in Connectors

\* The call returns: the trade leaves the active set and joins the history.
Finish(tid, trade, fl, ret) ==
    /\ trades' = [trades EXCEPT ![tid] = trade]
    /\ fills' = [fills EXCEPT ![tid] = fl]
    /\ history' = Append(history, tid)
    /\ active' = active \ {tid}
    /\ returned' = [returned EXCEPT ![tid] = ret]
    /\ call' = Idle

\* _execute_both_legs returned `fl` without raising.
Return(tid, trade, fl) ==
    Finish(tid, settle_trade(trade, fl), fl,
           IF fills_truthy(fl) THEN "Trade" ELSE "None")

\* An exception reached execute_opportunity's except branch.
Raise(tid, trade, fl) == Finish(tid, fail_trade(trade), fl, "None")

\* execute_opportunity up to the first place_order: the Trade is created
\* and registered, and the first leg's _execute_leg starts.
ExecuteOpportunity(opp, size) ==
    /\ call.pc = "idle"
    /\ Len(trades) < MaxTrades
    /\ LET tid == Len(trades) + 1
           first == FirstLeg(opp)
       IN /\ fills' = Append(fills, NoList)
          /\ orders' = <<>>
          /\ IF HasConnector(LegOf(opp, first))
             THEN /\ trades' = Append(trades, NewTrade(opp, size))
                  /\ active' = active \cup {tid}
                  /\ returned' = Append(returned, "running")
                  /\ history' = history
                  /\ call' = [pc |-> "placing", tid |-> tid, first |-> first,
                              leg |-> first, attempt |-> 0]
             ELSE /\ trades' = Append(trades, fail_trade(NewTrade(opp, size)))
                  /\ active' = active
                  /\ returned' = Append(returned, "None")
                  /\ history' = Append(history, tid)
                  /\ call' = Idle
    /\ UNCHANGED <<riskVars, sizerVars, portfolioVars, extVars>>

\* The OrderRequest of leg `l` of trade `t`, as _execute_leg sends it.
RequestOf(t, l) ==
    IF l = "a"
    THEN Leg(t.venue_a, t.contract_a, t.side_a, t.price_a)
    ELSE Leg(t.venue_b, t.contract_b, t.side_b, t.price_b)

\* One connector.place_order call of the call in flight, and everything
\* the engine does until the next place_order or until it returns.
PlaceOrder(outcome) ==
    /\ call.pc = "placing"
    /\ LET tid == call.tid
           trade == trades[tid]
           isFirst == call.leg = call.first
           step == execute_leg_step(call.attempt, outcome)
           got == IF step = "return_fill" THEN Fill(outcome.fee_paid) ELSE NoFill
           prev == fills[tid]
           both == IF call.leg = "a"
                   THEN FillList(got, prev.b)
                   ELSE FillList(prev.a, got)
       IN /\ orders' = Append(orders, [leg |-> call.leg, attempt |-> call.attempt,
                                      kind |-> outcome.kind])
          /\ CASE step = "retry" ->
                    /\ call' = [call EXCEPT !.attempt = @ + 1]
                    /\ UNCHANGED <<trades, active, history, fills, returned>>
               [] step = "raise" ->
                    Raise(tid, trade, prev)
               [] isFirst /\ after_first_leg(got) = "second" ->
                    IF HasConnector(RequestOf(trade, OtherLeg(call.leg)))
                    THEN /\ call' = [call EXCEPT !.leg = OtherLeg(call.leg),
                                                 !.attempt = 0]
                         /\ fills' = [fills EXCEPT ![tid] =
                                         [both EXCEPT !.list = FALSE]]
                         /\ UNCHANGED <<trades, active, history, returned>>
                    ELSE Raise(tid, trade, [both EXCEPT !.list = FALSE])
               [] isFirst ->
                    Return(tid, trade, NoList)
               [] OTHER ->
                    Return(tid, trade, both)
    /\ UNCHANGED <<riskVars, sizerVars, portfolioVars, extVars>>

----------------------------------------------------------------------------
(* RiskManager (src/src/core/risk.py)                                     *)

\* Bounds of the risk model: the clock's range, and how many samples the
\* model lets a window or history grow to.
MaxTime == 6

MaxNewErrors == 2

MaxLatencies == 2

MaxRecorded == 3

\* deque(maxlen=...) capacities, the window and latch lengths in minutes,
\* and the thresholds written into the code.
WindowCapacity == 100

PnlCapacity == 1000

WindowMinutes == 5

LatchMinutes == 5

MinErrors == 10

AssumedRequests == 100

\* Constructor arguments (the Settings defaults).
max_drawdown_pct == 10

circuit_breaker_latency_ms == 5000

max_position_per_event_usd == 5000

max_open_risk_usd == 3000

min_edge_bps == 80

\* collections.deque.append with maxlen: the oldest entry falls out.
DequeAppend(q, x, maxlen) ==
    IF Len(q) >= maxlen THEN Append(Tail(q), x) ELSE Append(q, x)

RECURSIVE SumSeq(_)
SumSeq(q) == IF q = <<>> THEN 0 ELSE Head(q) + SumSeq(Tail(q))

\* _get_recent_errors / _get_recent_latencies at time t.
get_recent_errors(errs, t, minutes) ==
    SelectSeq(errs, LAMBDA ts : ts > t - minutes)

get_recent_latencies(lats, t, minutes) ==
    SelectSeq(lats, LAMBDA l : l.timestamp > t - minutes)

LatencySum(lats) ==
    SumSeq([i \in 1..Len(lats) |-> lats[i].latency_ms])

\* A trigger that counts every stored sample, whatever its age.
TriggerIgnoringWindow(errs, lats, t, rate_pct) ==
    \/ /\ Len(errs) >= MinErrors
       /\ Len(errs) * 100 > rate_pct * AssumedRequests
    \/ /\ Len(lats) > 0
       /\ LatencySum(lats) > circuit_breaker_latency_ms * Len(lats)

\* _should_trigger_circuit_breaker at time t.  The rate is kept in
\* percent: len/100 > rate  <=>  len * 100 > rate_pct * 100.
should_trigger_circuit_breaker(errs, lats, t, rate_pct) ==
    LET recent_errors == get_recent_errors(errs, t, WindowMinutes)
        recent_latencies == get_recent_latencies(lats, t, WindowMinutes)
    IN \/ /\ Len(recent_errors) >= MinErrors
          /\ Len(recent_errors) * 100 > rate_pct * AssumedRequests
       \/ /\ Len(recent_latencies) > 0
          /\ LatencySum(recent_latencies)
                > circuit_breaker_latency_ms * Len(recent_latencies)

\* A dict with key k set to x / with key k deleted.
DictSet(d, k, x) == [y \in DOMAIN d \cup {k} |-> IF y = k THEN x ELSE d[y]]

DictDel(d, k) == [y \in DOMAIN d \ {k} |-> d[y]]

\* The tail of record_error / record_latency: trigger if warranted.
MaybeTrigger(venue, errs, lats) ==
    IF should_trigger_circuit_breaker(errs, lats, now, circuit_breaker_error_rate)
    THEN /\ circuit_breakers' = [circuit_breakers EXCEPT ![venue] = TRUE]
         /\ circuit_breaker_timestamps' =
                DictSet(circuit_breaker_timestamps, venue, now)
    ELSE UNCHANGED <<circuit_breakers, circuit_breaker_timestamps>>

\* A breaker that already expires when exactly LatchMinutes have passed.
BreakerActiveInclusive(cb, ts, venue, t) ==
    IF ~cb[venue]
    THEN [active |-> FALSE, cb |-> cb, ts |-> ts]
    ELSE IF venue \in DOMAIN ts /\ t >= ts[venue] + LatchMinutes
         THEN [active |-> FALSE, cb |-> [cb EXCEPT ![venue] = FALSE],
               ts |-> DictDel(ts, venue)]
         ELSE [active |-> TRUE, cb |-> cb, ts |-> ts]

\* _is_circuit_breaker_active at time t: the answer and the breaker state
\* it leaves (an expired latch is cleared by the check).
is_circuit_breaker_active(cb, ts, venue, t) ==
    IF ~cb[venue]
    THEN [active |-> FALSE, cb |-> cb, ts |-> ts]
    ELSE IF venue \in DOMAIN ts /\ t > ts[venue] + LatchMinutes
         THEN [active |-> FALSE, cb |-> [cb EXCEPT ![venue] = FALSE],
               ts |-> DictDel(ts, venue)]
         ELSE [active |-> TRUE, cb |-> cb, ts |-> ts]

\* The loop of _check_drawdown: <<running_pnl, peak_pnl, max_drawdown>>
\* after the whole history.
Max(a, b) == IF a >= b THEN a ELSE b

Min(a, b) == IF a <= b THEN a ELSE b

RECURSIVE DrawdownLoop(_, _)
DrawdownLoop(hist, acc) ==
    IF hist = <<>>
    THEN acc
    ELSE LET running == acc[1] + Head(hist)
             peak == Max(acc[2], running)
             maxdd == Max(acc[3], peak - running)
         IN DrawdownLoop(Tail(hist), <<running, peak, maxdd>>)

\* A gate on the current drawdown only, for comparison.
CurrentDrawdownOnly(hist) ==
    LET r == DrawdownLoop(hist, <<0, 0, 0>>)
    IN /\ r[2] > 0
       /\ (r[2] - r[1]) * 100 > max_drawdown_pct * r[2]

\* _check_drawdown: (max_drawdown / peak_pnl) * 100 > max_drawdown_pct.
check_drawdown(hist) ==
    IF hist = <<>>
    THEN FALSE
    ELSE LET r == DrawdownLoop(hist, <<0, 0, 0>>)
         IN IF r[2] > 0
            THEN r[3] * 100 > max_drawdown_pct * r[2]
            ELSE FALSE

\* current_positions.get(event_id, 0.0) and sum(current_positions.values()).
Exposure(pos, e) == IF e \in DOMAIN pos THEN pos[e] ELSE 0

RECURSIVE SumOver(_, _)
SumOver(pos, keys) ==
    IF keys = {}
    THEN 0
    ELSE LET k == CHOOSE x \in keys : TRUE
         IN pos[k] + SumOver(pos, keys \ {k})

TotalExposure(pos) == SumOver(pos, DOMAIN pos)

Reason(msg, who, bps) == [msg |-> msg, who |-> who, bps |-> bps]

\* The gates with the aggregate cap tested before the per-event cap.
LimitGatesTotalFirst(opp, pos, hist) ==
    CASE check_drawdown(hist) ->
            [allowed |-> FALSE, reason |-> Reason("Maximum drawdown exceeded", "", 0)]
      [] TotalExposure(pos) + opp.notional > max_open_risk_usd ->
            [allowed |-> FALSE, reason |-> Reason("Total risk limit exceeded", "", 0)]
      [] Exposure(pos, opp.event_id) + opp.notional > max_position_per_event_usd ->
            [allowed |-> FALSE,
             reason |-> Reason("Position limit exceeded for event", opp.event_id, 0)]
      [] opp.edge_bps < min_edge_bps ->
            [allowed |-> FALSE, reason |-> Reason("Edge too small", "", opp.edge_bps)]
      [] OTHER ->
            [allowed |-> TRUE, reason |-> Reason("Risk check passed", "", 0)]

\* The gates of check_trade_risk after the two breaker checks.
limit_gates(opp, pos, hist) ==
    CASE check_drawdown(hist) ->
            [allowed |-> FALSE, reason |-> Reason("Maximum drawdown exceeded", "", 0)]
      [] Exposure(pos, opp.event_id) + opp.notional > max_position_per_event_usd ->
            [allowed |-> FALSE,
             reason |-> Reason("Position limit exceeded for event", opp.event_id, 0)]
      [] TotalExposure(pos) + opp.notional > max_open_risk_usd ->
            [allowed |-> FALSE, reason |-> Reason("Total risk limit exceeded", "", 0)]
      [] opp.edge_bps < min_edge_bps ->
            [allowed |-> FALSE, reason |-> Reason("Edge too small", "", opp.edge_bps)]
      [] OTHER ->
            [allowed |-> TRUE, reason |-> Reason("Risk check passed", "", 0)]

\* A check that asks both venues' breakers before it answers.
CheckBothBreakers(opp, pos, cb, ts, hist, t) ==
    LET a == is_circuit_breaker_active(cb, ts, opp.leg_a.venue, t)
        b == is_circuit_breaker_active(a.cb, a.ts, opp.leg_b.venue, t)
    IN IF a.active
       THEN [allowed |-> FALSE,
             reason |-> Reason("Circuit breaker active for", opp.leg_a.venue, 0),
             cb |-> b.cb, ts |-> b.ts]
       ELSE IF b.active
       THEN [allowed |-> FALSE,
             reason |-> Reason("Circuit breaker active for", opp.leg_b.venue, 0),
             cb |-> b.cb, ts |-> b.ts]
       ELSE LET g == limit_gates(opp, pos, hist)
            IN [allowed |-> g.allowed, reason |-> g.reason,
                cb |-> b.cb, ts |-> b.ts]

\* check_trade_risk at time t: the verdict, and the breaker state left by
\* the _is_circuit_breaker_active calls it made.
check_trade_risk(opp, pos, cb, ts, hist, t) ==
    LET a == is_circuit_breaker_active(cb, ts, opp.leg_a.venue, t)
    IN IF a.active
       THEN [allowed |-> FALSE,
             reason |-> Reason("Circuit breaker active for", opp.leg_a.venue, 0),
             cb |-> a.cb, ts |-> a.ts]
       ELSE LET b == is_circuit_breaker_active(a.cb, a.ts, opp.leg_b.venue, t)
            IN IF b.active
               THEN [allowed |-> FALSE,
                     reason |-> Reason("Circuit breaker active for",
                                       opp.leg_b.venue, 0),
                     cb |-> b.cb, ts |-> b.ts]
               ELSE LET g == limit_gates(opp, pos, hist)
                    IN [allowed |-> g.allowed, reason |-> g.reason,
                        cb |-> b.cb, ts |-> b.ts]

NoOpp == Opp("", Leg("", "", "", 0), Leg("", "", "", 0), 0, 0)

NoPositions == [e \in {} |-> 0]

\* The latest call, when it was a check_trade_risk call: its arguments,
\* the breaker flags and latch times it found, and what it returned.
RiskCall(op, opp, pos, cb, ts, allowed, reason) ==
    [op |-> op, opp |-> opp, positions |-> pos, breakers |-> cb,
     latched_at |-> ts, allowed |-> allowed, reason |-> reason]

NoRiskCall ==
    RiskCall("other", NoOpp, NoPositions, [v \in Venue |-> FALSE],
             [v \in {} |-> 0], TRUE, Reason("", "", 0))

\* Samples in the windows of all venues.
RECURSIVE TotalLen(_, _)
TotalLen(f, keys) ==
    IF keys = {}
    THEN 0
    ELSE LET k == CHOOSE x \in keys : TRUE
         IN Len(f[k]) + TotalLen(f, keys \ {k})

\* The error windows the model starts from: empty, or holding the
\* MinErrors - 1 errors that record_error stored at time 0 (one short of
\* the count that can latch).
FreshErrors == [v \in Venue |-> <<>>]

LoadedErrors == [v \in Venue |-> [i \in 1..(MinErrors - 1) |-> 0]]

\* Bound: at most MaxNewErrors errors are recorded on top of `initial`.
ErrorBudget(initial) ==
    TotalLen(error_counts, Venue) < TotalLen(initial, Venue) + MaxNewErrors

InitRisk ==
    /\ now = 0
    /\ error_counts = FreshErrors
    /\ latency_measurements = [v \in Venue |-> <<>>]
    /\ circuit_breakers = [v \in Venue |-> FALSE]
    /\ circuit_breaker_timestamps = [v \in {} |-> 0]
    /\ pnl_history = <<>>
    /\ trades_history = <<>>
    /\ circuit_breaker_error_rate = 10
    /\ last_risk = NoRiskCall

\* The wall clock moves on by d minutes.
Tick(d) ==
    /\ now + d <= MaxTime
    /\ now' = now + d
    /\ last_risk' = NoRiskCall
    /\ UNCHANGED <<error_counts, latency_measurements, circuit_breakers,
                   circuit_breaker_timestamps, pnl_history, trades_history,
                   circuit_breaker_error_rate>>
    /\ UNCHANGED <<execVars, sizerVars, portfolioVars, extVars>>

RecordError(venue) ==
    /\ LET errs == DequeAppend(error_counts[venue], now, WindowCapacity)
       IN /\ error_counts' = [error_counts EXCEPT ![venue] = errs]
          /\ MaybeTrigger(venue, errs, latency_measurements[venue])
    /\ last_risk' = NoRiskCall
    /\ UNCHANGED <<now, latency_measurements, pnl_history, trades_history,
                   circuit_breaker_error_rate>>
    /\ UNCHANGED <<execVars, sizerVars, portfolioVars, extVars>>

RecordLatency(venue, latency_ms) ==
    /\ TotalLen(latency_measurements, Venue) < MaxLatencies
    /\ LET lats == DequeAppend(latency_measurements[venue],
                               [timestamp |-> now, latency_ms |-> latency_ms],
                               WindowCapacity)
       IN /\ latency_measurements' = [latency_measurements EXCEPT ![venue] = lats]
          /\ MaybeTrigger(venue, error_counts[venue], lats)
    /\ last_risk' = NoRiskCall
    /\ UNCHANGED <<now, error_counts, pnl_history, trades_history,
                   circuit_breaker_error_rate>>
    /\ UNCHANGED <<execVars, sizerVars, portfolioVars, extVars>>

ResetCircuitBreaker(venue) ==
    /\ circuit_breakers' = [circuit_breakers EXCEPT ![venue] = FALSE]
    /\ circuit_breaker_timestamps' = DictDel(circuit_breaker_timestamps, venue)
    /\ last_risk' = NoRiskCall
    /\ UNCHANGED <<now, error_counts, latency_measurements, pnl_history,
                   trades_history, circuit_breaker_error_rate>>
    /\ UNCHANGED <<execVars, sizerVars, portfolioVars, extVars>>

RecordTrade(pnl) ==
    /\ Len(trades_history) < MaxRecorded
    /\ trades_history' = Append(trades_history, pnl)
    /\ pnl_history' = IF pnl # 0
                      THEN DequeAppend(pnl_history, pnl, PnlCapacity)
                      ELSE pnl_history
    /\ last_risk' = NoRiskCall
    /\ UNCHANGED <<now, error_counts, latency_measurements, circuit_breakers,
                   circuit_breaker_timestamps, circuit_breaker_error_rate>>
    /\ UNCHANGED <<execVars, sizerVars, portfolioVars, extVars>>

CheckTradeRisk(opp, pos) ==
    /\ LET r == check_trade_risk(opp, pos, circuit_breakers,
                                 circuit_breaker_timestamps, pnl_history, now)
       IN /\ circuit_breakers' = r.cb
          /\ circuit_breaker_timestamps' = r.ts
          /\ last_risk' = RiskCall("check_trade_risk", opp, pos,
                                   circuit_breakers, circuit_breaker_timestamps,
                                   r.allowed, r.reason)
    /\ UNCHANGED <<now, error_counts, latency_measurements, pnl_history,
                   trades_history, circuit_breaker_error_rate>>
    /\ UNCHANGED <<execVars, sizerVars, portfolioVars, extVars>>

----------------------------------------------------------------------------
(* PositionSizer (src/src/core/sizing.py)                                 *)

\* Constructor arguments (the Settings defaults); kelly_fraction in percent.
max_per_trade_usd == 1000

kelly_fraction == 25

bankroll == 10000

\* min(edge_decimal, 0.25), in bps.
KellyCapBps == 2500

BpsPerUnit == 10000

\* Exact rationals <<n, d>> with d > 0, kept in lowest terms.
RECURSIVE Gcd(_, _)
Gcd(a, b) == IF b = 0 THEN a ELSE Gcd(b, a % b)

\* A rational in lowest terms (0 is <<0, 1>>).
Norm(x) ==
    IF x[1] = 0
    THEN <<0, 1>>
    ELSE LET g == Gcd(IF x[1] < 0 THEN 0 - x[1] ELSE x[1], x[2])
         IN <<x[1] \div g, x[2] \div g>>

Rat(n, d) == Norm(IF d < 0 THEN <<0 - n, 0 - d>> ELSE <<n, d>>)

RLess(x, y) == x[1] * y[2] < y[1] * x[2]

RLeq(x, y) == x[1] * y[2] <= y[1] * x[2]

RMin(x, y) == IF RLeq(x, y) THEN x ELSE y

RTimes(x, k) == Norm(<<x[1] * k, x[2]>>)

RPlusInt(x, k) == <<x[1] + k * x[2], x[2]>>

RInt(k) == <<k, 1>>

\* Python's round(): to the nearest integer, halves to the even one.
Round(x) ==
    LET q == x[1] \div x[2]
        r == x[1] % x[2]
    IN IF 2 * r < x[2] THEN q
       ELSE IF 2 * r > x[2] THEN q + 1
       ELSE IF q % 2 = 0 THEN q ELSE q + 1

\* _calculate_kelly_size: bankroll * min(edge, 0.25) * kelly_fraction / notional.
calculate_kelly_size(opp) ==
    Rat(bankroll * Min(opp.edge_bps, KellyCapBps) * kelly_fraction,
        BpsPerUnit * 100 * opp.notional)

\* _apply_risk_limits: `notional` is computed once, from the size passed in.
apply_risk_limits(size, opp, pos) ==
    LET notional == RTimes(size, opp.notional)
        s1 == IF RLess(RInt(max_per_trade_usd), notional)
              THEN Rat(max_per_trade_usd, opp.notional)
              ELSE size
        existing_event_exposure == Exposure(pos, opp.event_id)
        s2 == IF RLess(RInt(max_position_per_event_usd),
                       RPlusInt(notional, existing_event_exposure))
              THEN IF max_position_per_event_usd - existing_event_exposure > 0
                   THEN Rat(max_position_per_event_usd - existing_event_exposure,
                            opp.notional)
                   ELSE RInt(0)
              ELSE s1
        s3 == IF RLess(RInt(max_open_risk_usd),
                       RPlusInt(notional, TotalExposure(pos)))
              THEN IF max_open_risk_usd - TotalExposure(pos) > 0
                   THEN Rat(max_open_risk_usd - TotalExposure(pos), opp.notional)
                   ELSE RInt(0)
              ELSE s2
    IN s3

\* _get_venue_balance: a venue's available USD, or None when `balances`
\* holds no Balance of that venue.
HasBalance(bal, venue) == venue \in DOMAIN bal

\* _apply_balance_constraints; leg prices are cents, balances dollars.
apply_balance_constraints(size, opp, bal) ==
    LET leg_a_cost == RTimes(size, opp.leg_a.price)
        leg_b_cost == RTimes(size, opp.leg_b.price)
        va == opp.leg_a.venue
        vb == opp.leg_b.venue
        s1 == IF HasBalance(bal, va) /\ RLess(RInt(bal[va] * 100), leg_a_cost)
              THEN Rat(bal[va] * 100, opp.leg_a.price)
              ELSE size
        s2 == IF HasBalance(bal, vb) /\ RLess(RInt(bal[vb] * 100), leg_b_cost)
              THEN RMin(s1, Rat(bal[vb] * 100, opp.leg_b.price))
              ELSE s1
    IN s2

\* _round_to_venue_ticks: max(1.0, round(size)).
round_to_venue_ticks(size) == Max(1, Round(size))

\* calculate_position_size: every stage, and the value returned.
calculate_position_size(opp, bal, pos) ==
    LET kelly_size == calculate_kelly_size(opp)
        risk_limited_size == apply_risk_limits(kelly_size, opp, pos)
        balance_limited_size == apply_balance_constraints(risk_limited_size, opp, bal)
        final_size == round_to_venue_ticks(balance_limited_size)
    IN [kelly |-> kelly_size, risk_limited |-> risk_limited_size,
        balance_limited |-> balance_limited_size,
        final |-> Max(0, final_size)]

SizeCall(op, opp, pos, bal, size_in, r) ==
    [op |-> op, opp |-> opp, positions |-> pos, balances |-> bal,
     size_in |-> size_in, kelly |-> r.kelly, risk_limited |-> r.risk_limited,
     balance_limited |-> r.balance_limited, final |-> r.final]

NoSizes ==
    [kelly |-> RInt(0), risk_limited |-> RInt(0), balance_limited |-> RInt(0),
     final |-> 0]

InitSizer ==
    last_size = SizeCall("init", NoOpp, NoPositions, NoPositions, RInt(0), NoSizes)

ApplyRiskLimits(size, opp, pos) ==
    /\ last_size' = SizeCall("apply_risk_limits", opp, pos, NoPositions, size,
                             [NoSizes EXCEPT !.risk_limited =
                                                apply_risk_limits(size, opp, pos)])
    /\ UNCHANGED <<execVars, riskVars, portfolioVars, extVars>>

CalculatePositionSize(opp, bal, pos) ==
    /\ last_size' = SizeCall("calculate_position_size", opp, pos, bal, RInt(0),
                             calculate_position_size(opp, bal, pos))
    /\ UNCHANGED <<execVars, riskVars, portfolioVars, extVars>>

----------------------------------------------------------------------------
(* Portfolio (src/src/core/portfolio.py)                                  *)

\* Bound: trades the model lets the ledger hold.
MaxLedger == 3

\* Portfolio.__init__ default, in USD; balances are kept in pips.
initial_balance == 10000

PipsPerUsd == 10000

\* A leg applied without the reset of an oversold position.
SellGoingNegative(pos, order_side, qty, price) ==
    IF order_side = "BUY"
    THEN [pos EXCEPT
            !.avg_price = Norm(<<pos.qty * pos.avg_price[1]
                                    + qty * price * pos.avg_price[2],
                                 pos.avg_price[2] * (pos.qty + qty)>>),
            !.qty = pos.qty + qty]
    ELSE [pos EXCEPT !.qty = pos.qty - qty]

\* Lines 55-72 / 86-103: one leg applied to its Position.
update_position(pos, order_side, qty, price) ==
    IF order_side = "BUY"
    THEN LET new_qty == pos.qty + qty
         IN IF new_qty > 0
            THEN [pos EXCEPT
                    !.avg_price = Norm(<<pos.qty * pos.avg_price[1]
                                            + qty * price * pos.avg_price[2],
                                         pos.avg_price[2] * new_qty>>),
                    !.qty = new_qty]
            ELSE [pos EXCEPT !.qty = 0, !.avg_price = <<0, 1>>]
    ELSE IF pos.qty - qty <= 0
         THEN [pos EXCEPT !.qty = 0, !.avg_price = <<0, 1>>]
         ELSE [pos EXCEPT !.qty = pos.qty - qty]

\* The Position of (event, venue), created on first touch with the side
\* the code gives it.
EnsurePosition(posns, event_id, venue, contract_id, side) ==
    LET byVenue == IF event_id \in DOMAIN posns
                   THEN posns[event_id]
                   ELSE [v \in {} |-> 0]
    IN IF venue \in DOMAIN byVenue
       THEN posns
       ELSE DictSet(posns, event_id,
                    DictSet(byVenue, venue,
                            [contract_id |-> contract_id, side |-> side,
                             qty |-> 0, avg_price |-> <<0, 1>>]))

\* _update_positions_from_trade.
update_positions_from_trade(posns, trade) ==
    LET e == trade.event_id
        p1 == EnsurePosition(posns, e, trade.venue_a, trade.contract_a, "YES")
        p2 == [p1 EXCEPT ![e][trade.venue_a] =
                  update_position(@, trade.side_a, trade.qty, trade.price_a)]
        p3 == EnsurePosition(p2, e, trade.venue_b, trade.contract_b, "NO")
    IN [p3 EXCEPT ![e][trade.venue_b] =
           update_position(@, trade.side_b, trade.qty, trade.price_b)]

\* The Portfolio object as a record.
PortfolioState == [current_balance |-> current_balance, positions |-> positions,
                   ledger |-> ledger]

\* add_trade without its last line (the balance update).
AddTradeWithoutBalance(p, trade) ==
    [current_balance |-> p.current_balance,
     positions |-> update_positions_from_trade(p.positions, trade),
     ledger |-> Append(p.ledger, trade)]

add_trade(p, trade) ==
    [current_balance |-> p.current_balance + trade.pnl,
     positions |-> update_positions_from_trade(p.positions, trade),
     ledger |-> Append(p.ledger, trade)]

reset_portfolio(p) ==
    [current_balance |-> initial_balance * PipsPerUsd,
     positions |-> [e \in {} |-> 0],
     ledger |-> <<>>]

\* get_portfolio_summary's realized_pnl: sum(trade.pnl for trade in _trades).
realized_pnl(l) == SumSeq([i \in 1..Len(l) |-> l[i].pnl])

InitPortfolio ==
    /\ current_balance = initial_balance * PipsPerUsd
    /\ positions = [e \in {} |-> 0]
    /\ ledger = <<>>

SetPortfolio(p) ==
    /\ current_balance' = p.current_balance
    /\ positions' = p.positions
    /\ ledger' = p.ledger

AddTrade(trade) ==
    /\ Len(ledger) < MaxLedger
    /\ SetPortfolio(add_trade(PortfolioState, trade))
    /\ UNCHANGED <<execVars, riskVars, sizerVars, extVars>>

ResetPortfolio ==
    /\ SetPortfolio(reset_portfolio(PortfolioState))
    /\ UNCHANGED <<execVars, riskVars, sizerVars, extVars>>

----------------------------------------------------------------------------
(* ExecutionEngine.hedge_partial_fill and cancel_trade                    *)
(* (src/src/core/execution.py, lines 189-259)                             *)

\* Bound: hedge_partial_fill and cancel_trade calls modelled.
MaxEngineCalls == 2

\* The Fill the caller passes to hedge_partial_fill: its venue and qty.
PartialFill(v, q) == [venue |-> v, qty |-> q]

\* An engine that hedges on the venue that filled, with that leg's side.
HedgeOnFilledVenue(trade, partial_fill) ==
    IF partial_fill.venue = trade.venue_a
    THEN [venue |-> trade.venue_a, contract_id |-> trade.contract_a,
          side |-> trade.side_a, price |-> 0, qty |-> partial_fill.qty,
          tif |-> "IOC"]
    ELSE [venue |-> trade.venue_b, contract_id |-> trade.contract_b,
          side |-> trade.side_b, price |-> 0, qty |-> partial_fill.qty,
          tif |-> "IOC"]

get_opposite_side(side) == IF side = "BUY" THEN "SELL" ELSE "BUY"

\* hedge_partial_fill lines 195-215: the hedge OrderRequest.
hedge_order(trade, partial_fill) ==
    IF partial_fill.venue = trade.venue_a
    THEN [venue |-> trade.venue_b, contract_id |-> trade.contract_b,
          side |-> get_opposite_side(trade.side_b), price |-> 0,
          qty |-> partial_fill.qty, tif |-> "IOC"]
    ELSE [venue |-> trade.venue_a, contract_id |-> trade.contract_a,
          side |-> get_opposite_side(trade.side_a), price |-> 0,
          qty |-> partial_fill.qty, tif |-> "IOC"]

\* hedge_partial_fill lines 221-225: the trade once the hedge filled.
hedged_trade(trade) == [trade EXCEPT !.status = "hedged", !.extra = "hedge_fill"]

\* _cancel_leg: no order ids are tracked, so nothing is ever cancelled.
cancel_leg(venue, contract_id) == FALSE

\* The record of a hedge or cancel call: the trade's status and extra
\* when the call started and when it ended, the fill passed, the orders
\* placed and the result.
NoEngineCall ==
    [op |-> "none", n |-> 0, tid |-> 0, status_before |-> "none",
     extra_before |-> "none", status_after |-> "none", extra_after |-> "none",
     fill |-> PartialFill("none", 0),
     placed |-> <<>>, outcome |-> "none", returned |-> "none"]

InitHedge ==
    /\ engine_call = NoEngineCall
    /\ connectors = Venue

\* hedge_partial_fill(trade, partial_fill) on any Trade object the engine
\* has created; `outcome` is what place_order does if it is called.
HedgePartialFill(tid, partial_fill, outcome) ==
    /\ tid \in 1..Len(trades)
    /\ engine_call.n < MaxEngineCalls
    /\ LET trade == trades[tid]
           order == hedge_order(trade, partial_fill)
           called == order.venue \in Connectors
           filled == called /\ outcome.kind = "fill"
       IN /\ trades' = IF filled
                       THEN [trades EXCEPT ![tid] = hedged_trade(trade)]
                       ELSE trades
          /\ engine_call' =
                [op |-> "hedge", n |-> engine_call.n + 1, tid |-> tid,
                 status_before |-> trade.status, extra_before |-> trade.extra,
                 status_after |-> trades'[tid].status,
                 extra_after |-> trades'[tid].extra,
                 fill |-> partial_fill,
                 placed |-> IF called THEN <<order>> ELSE <<>>,
                 outcome |-> IF called THEN outcome.kind ELSE "none",
                 returned |-> CASE filled -> "Trade"
                                [] called /\ outcome.kind = "raise" -> "raised"
                                [] OTHER -> "None"]
    /\ UNCHANGED <<active, history, fills, orders, call, returned, connectors>>
    /\ UNCHANGED <<riskVars, sizerVars, portfolioVars, registryVars,
                   discoveryVars, liveVars>>

\* cancel_trade(trade_id): only a trade in _active_trades is looked at,
\* and since _cancel_leg returns False for both legs nothing changes.
CancelTrade(tid) ==
    /\ tid \in 1..Len(trades)
    /\ engine_call.n < MaxEngineCalls
    /\ LET found == tid \in active
           trade == trades[tid]
           cancelled_a == found /\ cancel_leg(trade.venue_a, trade.contract_a)
           cancelled_b == found /\ cancel_leg(trade.venue_b, trade.contract_b)
           done == cancelled_a \/ cancelled_b
       IN /\ trades' = IF done
                       THEN [trades EXCEPT ![tid].status = "cancelled"]
                       ELSE trades
          /\ history' = IF done THEN Append(history, tid) ELSE history
          /\ active' = IF done THEN active \ {tid} ELSE active
          /\ engine_call' =
                [op |-> "cancel", n |-> engine_call.n + 1, tid |-> tid,
                 status_before |-> trade.status, extra_before |-> trade.extra,
                 status_after |-> trades'[tid].status,
                 extra_after |-> trades'[tid].extra,
                 fill |-> PartialFill("none", 0), placed |-> <<>>,
                 outcome |-> "none",
                 returned |-> IF done THEN "True" ELSE "False"]
    /\ UNCHANGED <<fills, orders, call, returned, connectors>>
    /\ UNCHANGED <<riskVars, sizerVars, portfolioVars, registryVars,
                   discoveryVars, liveVars>>

----------------------------------------------------------------------------
(* Text (Python str as used by event_registry.py and venue_mappers.py)    *)
(*                                                                         *)
(* A str is the sequence of its characters; None and "" are both <<>>,    *)
(* which is all the code distinguishes (`if event_id`, `if not text`).    *)

LowerAlphabet ==
    <<"a", "b", "c", "d", "e", "f", "g", "h", "i", "j", "k", "l", "m", "n",
      "o", "p", "q", "r", "s", "t", "u", "v", "w", "x", "y", "z">>

UpperAlphabet ==
    <<"A", "B", "C", "D", "E", "F", "G", "H", "I", "J", "K", "L", "M", "N",
      "O", "P", "Q", "R", "S", "T", "U", "V", "W", "X", "Y", "Z">>

Digits ==
    <<"0", "1", "2", "3", "4", "5", "6", "7", "8", "9">>

Range(s) == { s[i] : i \in 1..Len(s) }

\* Characters matched by the regex classes \w and \s.
WordChars == Range(LowerAlphabet) \cup Range(UpperAlphabet) \cup Range(Digits) \cup {"_"}

Whitespace == {" ", "\t"}

\* Characters that _normalize_text keeps: [\w\s\-:.,?!].
KeptChars == WordChars \cup Whitespace \cup {"-", ":", ".", ",", "?", "!"}

\* str.upper(), one character and a whole string.
UpperOf ==
    [c \in Range(LowerAlphabet) |->
        UpperAlphabet[CHOOSE i \in 1..Len(LowerAlphabet) : LowerAlphabet[i] = c]]

UpperChar(c) == IF c \in DOMAIN UpperOf THEN UpperOf[c] ELSE c

Upper(s) == [i \in 1..Len(s) |-> UpperChar(s[i])]

\* The slice s[i..j] (1-based, inclusive), clipped to the string as
\* Python clips a slice.
Slice(s, i, j) ==
    LET last == IF j > Len(s) THEN Len(s) ELSE j
    IN IF last < i THEN <<>> ELSE SubSeq(s, i, last)

\* `word in text` for strings.
Contains(text, word) ==
    \E i \in 1..(Len(text) - Len(word) + 1) :
        \A j \in 1..Len(word) : text[i + j - 1] = word[j]

\* any(word in text for word in words)
ContainsAny(text, words) == \E w \in words : Contains(text, w)

\* str.strip(): drop leading and trailing whitespace.
Strip(s) ==
    IF \A i \in 1..Len(s) : s[i] \in Whitespace
    THEN <<>>
    ELSE Slice(s,
               CHOOSE i \in 1..Len(s) :
                   s[i] \notin Whitespace /\ \A j \in 1..(i - 1) : s[j] \in Whitespace,
               CHOOSE i \in 1..Len(s) :
                   s[i] \notin Whitespace /\ \A j \in (i + 1)..Len(s) : s[j] \in Whitespace)

\* re.sub(r'\s+', ' ', s): every run of whitespace becomes one space.
CollapseSpaces(s) ==
    LET firsts == SelectSeq([i \in 1..Len(s) |-> i],
                            LAMBDA i : ~(s[i] \in Whitespace /\ i > 1
                                         /\ s[i - 1] \in Whitespace))
    IN [k \in 1..Len(firsts) |->
            IF s[firsts[k]] \in Whitespace THEN " " ELSE s[firsts[k]]]

\* re.sub(r'[^\w\s\-:.,?!]', '', s): drop every other character.
RemoveSpecial(s) == SelectSeq(s, LAMBDA c : c \in KeptChars)

\* BaseVenueMapper._normalize_text
normalize_text(text) ==
    IF text = <<>> THEN <<>> ELSE RemoveSpecial(CollapseSpaces(Strip(text)))

\* ':'.join(parts)
RECURSIVE Join(_, _)
Join(parts, sep) ==
    IF parts = <<>> THEN <<>>
    ELSE IF Len(parts) = 1 THEN parts[1]
    ELSE parts[1] \o sep \o Join(Tail(parts), sep)

\* str.split(sep) for a one-character separator.
RECURSIVE Split(_, _)
Split(s, sep) ==
    LET cuts == { i \in 1..Len(s) : s[i] = sep }
    IN IF cuts = {} THEN <<s>>
       ELSE LET k == CHOOSE i \in cuts : \A j \in cuts : i <= j
            IN <<Slice(s, 1, k - 1)>> \o Split(Slice(s, k + 1, Len(s)), sep)

\* The words the mappers look for.
W_ELECTION == <<"E", "L", "E", "C", "T", "I", "O", "N">>

W_PRESIDENT == <<"P", "R", "E", "S", "I", "D", "E", "N", "T">>

W_PRESIDENTIAL == <<"P", "R", "E", "S", "I", "D", "E", "N", "T", "I", "A", "L">>

W_WIN == <<"W", "I", "N">>

W_BITCOIN == <<"B", "I", "T", "C", "O", "I", "N">>

W_BTC == <<"B", "T", "C">>

W_ETH == <<"E", "T", "H">>

W_ETHEREUM == <<"E", "T", "H", "E", "R", "E", "U", "M">>

W_CRYPTO == <<"C", "R", "Y", "P", "T", "O">>

W_OSCAR == <<"O", "S", "C", "A", "R">>

W_EMMY == <<"E", "M", "M", "Y">>

W_GRAMMY == <<"G", "R", "A", "M", "M", "Y">>

W_AWARD == <<"A", "W", "A", "R", "D">>

W_SUPER_BOWL == <<"S", "U", "P", "E", "R", " ", "B", "O", "W", "L">>

W_WORLD_CUP == <<"W", "O", "R", "L", "D", " ", "C", "U", "P">>

W_NBA == <<"N", "B", "A">>

W_NFL == <<"N", "F", "L">>

W_MLB == <<"M", "L", "B">>

W_TRUMP == <<"T", "R", "U", "M", "P">>

W_DONALD_TRUMP == <<"D", "O", "N", "A", "L", "D", " ", "T", "R", "U", "M", "P">>

W_BIDEN == <<"B", "I", "D", "E", "N">>

W_JOE_BIDEN == <<"J", "O", "E", " ", "B", "I", "D", "E", "N">>

W_HARRIS == <<"H", "A", "R", "R", "I", "S">>

W_KAMALA_HARRIS == <<"K", "A", "M", "A", "L", "A", " ", "H", "A", "R", "R", "I", "S">>

W_DESANTIS == <<"D", "E", "S", "A", "N", "T", "I", "S">>

W_RON_DESANTIS == <<"R", "O", "N", " ", "D", "E", "S", "A", "N", "T", "I", "S">>

W_NEWSOM == <<"N", "E", "W", "S", "O", "M">>

W_GAVIN_NEWSOM == <<"G", "A", "V", "I", "N", " ", "N", "E", "W", "S", "O", "M">>

W_US == <<"U", "S">>

W_USA == <<"U", "S", "A">>

W_UNITED_STATES == <<"U", "N", "I", "T", "E", "D", " ", "S", "T", "A", "T", "E", "S">>

W_AMERICAN == <<"A", "M", "E", "R", "I", "C", "A", "N">>

W_GLOBAL == <<"G", "L", "O", "B", "A", "L">>

W_PRES == <<"P", "R", "E", "S">>

----------------------------------------------------------------------------
(* EventRegistry (src/src/core/event_registry.py) and the venue mappers   *)
(* (src/src/core/venue_mappers.py)                                        *)

\* Bound: registry and mapper calls modelled.
MaxRegistryCalls == 3

\* A missing event id (None).
NoneId == <<>>

\* CanonicalEvent.build_event_id: the components are upper-cased and
\* stripped, then everything is joined with ':'.
build_event_id(event_type, scope, components) ==
    event_type \o <<":">> \o scope \o <<":">>
        \o Join([i \in 1..Len(components) |-> Strip(Upper(components[i]))], <<":">>)

\* The registry's state: the ids of the events stored, and the mappings
\* by key.  The key f"{venue}:{market_id}" is kept as the pair, which it
\* determines because no venue name contains ':'.
Registry(ev, mp) == [events |-> ev, mappings |-> mp]

MappingKey(venue, market_id) == <<venue, market_id>>

VenueMapping(event_id, title, method) ==
    [event_id |-> event_id, title_raw |-> title, mapping_method |-> method]

\* EventRegistry.add_event
add_event(reg, event_id) == [reg EXCEPT !.events = @ \cup {event_id}]

\* EventRegistry.get_event, as the truth value the callers test.
get_event(reg, event_id) == event_id \in reg.events

\* EventRegistry.add_mapping: the mapping is stored under its key.
add_mapping(reg, venue, market_id, mapping) ==
    [reg EXCEPT !.mappings = DictSet(@, MappingKey(venue, market_id), mapping)]

\* EventRegistry.get_mapping, as the truth value and the event id.
has_mapping(reg, venue, market_id) ==
    MappingKey(venue, market_id) \in DOMAIN reg.mappings

mapped_event_id(reg, venue, market_id) ==
    reg.mappings[MappingKey(venue, market_id)].event_id

\* EventRegistry.get_mapped_markets: the keys mapped to the event.
get_mapped_markets(reg, event_id) ==
    { k \in DOMAIN reg.mappings : reg.mappings[k].event_id = event_id }

\* EventRegistry.get_coverage_stats
get_coverage_stats(reg) ==
    [total_events |-> Cardinality(reg.events),
     total_mappings |-> Cardinality(DOMAIN reg.mappings),
     events_with_cross_venue |->
        Cardinality({ e \in reg.events :
            Cardinality({ k[1] : k \in get_mapped_markets(reg, e) }) >= 2 })]

\* The candidates of _parse_election_event, in the dict's order, and the
\* aliases of each.
CandidateNames == <<W_TRUMP, W_BIDEN, W_HARRIS, W_DESANTIS, W_NEWSOM>>

CandidateAliases ==
    <<{W_TRUMP, W_DONALD_TRUMP}, {W_BIDEN, W_JOE_BIDEN}, {W_HARRIS, W_KAMALA_HARRIS},
      {W_DESANTIS, W_RON_DESANTIS}, {W_NEWSOM, W_GAVIN_NEWSOM}>>

\* The years the regex 20(24|25|26|27|28|29|30) matches.
YearStrings ==
    {<<"2", "0", "2", "4">>,
     <<"2", "0", "2", "5">>,
     <<"2", "0", "2", "6">>,
     <<"2", "0", "2", "7">>,
     <<"2", "0", "2", "8">>,
     <<"2", "0", "2", "9">>,
     <<"2", "0", "3", "0">>}

\* re.search of that regex: the leftmost match, or None.
year_search(text) ==
    LET hits == { i \in 1..Len(text) : Slice(text, i, i + 3) \in YearStrings }
    IN IF hits = {} THEN NoneId
       ELSE LET k == CHOOSE i \in hits : \A j \in hits : i <= j
            IN Slice(text, k, k + 3)

\* PolymarketMapper._parse_election_event
parse_election_event(text) ==
    LET found == { i \in 1..Len(CandidateNames) :
                      ContainsAny(text, CandidateAliases[i]) }
        year == year_search(text)
        position == IF Contains(text, W_PRESIDENT) THEN W_PRESIDENT ELSE W_ELECTION
        scope == IF ContainsAny(text, {W_US, W_USA, W_UNITED_STATES, W_AMERICAN})
                 THEN W_US ELSE W_GLOBAL
    IN IF found = {} THEN NoneId
       ELSE IF year = NoneId THEN NoneId
       ELSE LET candidate == CandidateNames[CHOOSE i \in found : \A j \in found : i <= j]
            IN build_event_id(W_ELECTION, scope, <<position, year, candidate>>)

\* PolymarketMapper._parse_sports_event
parse_sports_event(text) == NoneId

\* The key words of map_to_event_id's branches.
ElectionWords == {W_ELECTION, W_PRESIDENT, W_PRESIDENTIAL, W_WIN}

CryptoWords == {W_BITCOIN, W_BTC, W_ETH, W_ETHEREUM, W_CRYPTO}

AwardsWords == {W_OSCAR, W_EMMY, W_GRAMMY, W_AWARD}

SportsWords == {W_SUPER_BOWL, W_WORLD_CUP, W_NBA, W_NFL, W_MLB}

KalshiElectionWords == {W_ELECTION, W_PRESIDENT, W_PRESIDENTIAL}

KalshiCryptoWords == {W_BITCOIN, W_BTC, W_ETH, W_CRYPTO}

\* PolymarketMapper.map_to_event_id lines 147-183: the event id parsed
\* from the title and the confidence in percent.  Crypto and awards
\* titles are outside the model, and their branches have no arm here.
Parsed(event_id, confidence) ==
    [event_id |-> event_id, confidence |-> IF event_id # NoneId THEN confidence ELSE 0]

polymarket_branches(norm_title, norm_desc) ==
    LET combined == norm_title \o <<" ">> \o norm_desc
        election == ContainsAny(norm_title, ElectionWords)
        crypto == ContainsAny(norm_title, CryptoWords)
        awards == ContainsAny(norm_title, AwardsWords)
        sports == ContainsAny(norm_title, SportsWords)
    IN CASE election -> Parsed(parse_election_event(combined), 95)
         [] ~election /\ ~crypto /\ ~awards /\ sports ->
                [event_id |-> parse_sports_event(combined), confidence |-> 0]
         [] ~election /\ ~crypto /\ ~awards /\ ~sports ->
                [event_id |-> NoneId, confidence |-> 0]

polymarket_parse(title, description) ==
    polymarket_branches(Upper(normalize_text(title)), Upper(normalize_text(description)))

\* KalshiMapper._parse_ticker_format; crypto tickers are outside the model.
parse_ticker_format(ticker) ==
    LET parts == Split(Upper(ticker), "-")
    IN CASE Len(parts) < 2 -> NoneId
         [] Len(parts) >= 2 /\ parts[1] \in {W_PRES, W_PRESIDENT} ->
                IF Len(parts) >= 3
                THEN build_event_id(W_ELECTION, W_US, <<W_PRESIDENT, parts[2], parts[3]>>)
                ELSE NoneId
         [] Len(parts) >= 2
            /\ parts[1] \notin {W_PRES, W_PRESIDENT, W_BTC, W_ETH, W_BITCOIN, W_ETHEREUM} ->
                NoneId

\* KalshiMapper.map_to_event_id lines 432-444: ticker first, then title.
kalshi_branches(ticker_id, norm_title, norm_desc) ==
    LET combined == norm_title \o <<" ">> \o norm_desc
        election == ContainsAny(norm_title, KalshiElectionWords)
        crypto == ContainsAny(norm_title, KalshiCryptoWords)
    IN CASE ticker_id # NoneId -> ticker_id
         [] ticker_id = NoneId /\ election -> parse_election_event(combined)
         [] ticker_id = NoneId /\ ~election /\ ~crypto -> NoneId

kalshi_parse(market_id, title, description) ==
    kalshi_branches(parse_ticker_format(market_id), Upper(normalize_text(title)),
                    Upper(normalize_text(description)))

\* What a mapper's parsing yields for a market that is not mapped yet:
\* the event id to store, or None when the mapper abstains.
Confident(p) == IF p.event_id # NoneId /\ p.confidence >= 85 THEN p.event_id ELSE NoneId

parsed_event_id(venue, market_id, title, description) ==
    IF venue = "polymarket"
    THEN Confident(polymarket_parse(title, description))
    ELSE kalshi_parse(market_id, title, description)

\* The outcome of a mapper call: the registry afterwards and the result.
Mapped(reg, result) == [registry |-> reg, result |-> result]

\* A mapper that parses the title whether or not the market is mapped.
MapWithoutLookup(reg, venue, market_id, title, description) ==
    LET event_id == parsed_event_id(venue, market_id, title, description)
    IN IF event_id # NoneId
       THEN Mapped(add_mapping(add_event(reg, event_id), venue, market_id,
                               VenueMapping(event_id, title, "deterministic")),
                   event_id)
       ELSE Mapped(reg, NoneId)

\* PolymarketMapper.map_to_event_id / KalshiMapper.map_to_event_id: an
\* existing mapping answers; otherwise the title (or ticker) is parsed
\* and, on success, the event is created if missing and the mapping stored.
StoreParsed(reg, venue, market_id, title, event_id) ==
    IF event_id # NoneId
    THEN Mapped(add_mapping(IF get_event(reg, event_id)
                            THEN reg ELSE add_event(reg, event_id),
                            venue, market_id,
                            VenueMapping(event_id, title, "deterministic")),
                event_id)
    ELSE Mapped(reg, NoneId)

map_to_event_id(reg, venue, market_id, title, description) ==
    IF has_mapping(reg, venue, market_id)
    THEN Mapped(reg, mapped_event_id(reg, venue, market_id))
    ELSE StoreParsed(reg, venue, market_id, title,
                     parsed_event_id(venue, market_id, title, description))

\* The registry held in the variables.
RegistryState == Registry(events, mappings)

NoMapCall ==
    [op |-> "none", n |-> 0, venue |-> "none", market_id |-> <<>>, title |-> <<>>,
     event_id |-> NoneId, result |-> NoneId, before |-> Registry({}, <<>>),
     prev |-> [op |-> "none", venue |-> "none", market_id |-> <<>>, result |-> NoneId]]

\* The record of a call, remembering the call before it.
MapCall(op, venue, market_id, title, event_id, result) ==
    [op |-> op, n |-> last_map.n + 1, venue |-> venue, market_id |-> market_id,
     title |-> title, event_id |-> event_id, result |-> result,
     before |-> RegistryState,
     prev |-> [op |-> last_map.op, venue |-> last_map.venue,
               market_id |-> last_map.market_id, result |-> last_map.result]]

InitRegistry ==
    /\ events = {}
    /\ mappings = <<>>
    /\ last_map = NoMapCall

SetRegistry(reg) ==
    /\ events' = reg.events
    /\ mappings' = reg.mappings

AddEvent(event_id) ==
    /\ last_map.n < MaxRegistryCalls
    /\ SetRegistry(add_event(RegistryState, event_id))
    /\ last_map' = MapCall("add_event", "none", <<>>, <<>>, event_id, NoneId)
    /\ UNCHANGED <<execVars, riskVars, sizerVars, portfolioVars, hedgeVars,
                   discoveryVars, liveVars>>

AddMapping(venue, market_id, event_id, title) ==
    /\ last_map.n < MaxRegistryCalls
    /\ SetRegistry(add_mapping(RegistryState, venue, market_id,
                               VenueMapping(event_id, title, "manual")))
    /\ last_map' = MapCall("add_mapping", venue, market_id, title, event_id, NoneId)
    /\ UNCHANGED <<execVars, riskVars, sizerVars, portfolioVars, hedgeVars,
                   discoveryVars, liveVars>>

MapToEventId(venue, market_id, title) ==
    /\ last_map.n < MaxRegistryCalls
    /\ \E m \in {map_to_event_id(RegistryState, venue, market_id, title, <<>>)} :
          /\ SetRegistry(m.registry)
          /\ last_map' = MapCall("map", venue, market_id, title, NoneId, m.result)
    /\ UNCHANGED <<execVars, riskVars, sizerVars, portfolioVars, hedgeVars,
                   discoveryVars, liveVars>>

\* One CanonicalEvent.build_event_id call (a classmethod: the registry is
\* not touched).  The record keeps the arguments, in order, in the place of
\* the title, and the id returned.
BuildEventId(event_type, scope, components) ==
    /\ last_map.n < MaxRegistryCalls
    /\ last_map' = [MapCall("build_event_id", "none", <<>>, <<>>, NoneId,
                            build_event_id(event_type, scope, components))
                    EXCEPT !.title = <<event_type, scope>> \o components]
    /\ UNCHANGED <<events, mappings>>
    /\ UNCHANGED <<execVars, riskVars, sizerVars, portfolioVars, hedgeVars,
                   discoveryVars, liveVars>>

----------------------------------------------------------------------------
(* DiscoveryEngine (src/src/core/discovery.py), with the pure helpers of  *)
(* odds.py and fees.py.                                                    *)
(*                                                                         *)
(* Units.  Quote prices are cents; effective prices and notionals are in   *)
(* millionths of a dollar, in which a whole-cent price with fees in whole  *)
(* basis points is an integer; quantities and edges are exact rationals.   *)
(* The engine is the default one: use_deterministic_mapping is true.       *)

\* Bound: discover_opportunities calls modelled.
MaxDiscoveryCalls == 2

MicrosPerUsd == 1000000

MicrosPerCent == 10000

\* DiscoveryEngine.__init__ default (min_edge_bps is the Settings default
\* already defined for the risk limits: both are 80).
min_notional_usd == 100

\* _has_sufficient_liquidity's min_size, and the hour before expiry in
\* which _filter_opportunities drops an opportunity, in seconds.
min_size == 100

MinSecondsToExpiry == 3600

\* create_default_fee_calculator: taker fee in bps and gas in USD/1000000.
FeeModels ==
    [polymarket |-> [taker_bps |-> 25, gas_estimate |-> 500000, withdrawal_fee |-> 0],
     kalshi |-> [taker_bps |-> 30, gas_estimate |-> 0, withdrawal_fee |-> 0]]

\* x * k for a rational x and an integer k, cancelling before multiplying.
RScale(x, k) ==
    LET g == Gcd(IF k < 0 THEN 0 - k ELSE k, x[2])
    IN IF k = 0 THEN <<0, 1>> ELSE Norm(<<x[1] * (k \div g), x[2] \div g>>)

\* FeeCalculator.estimate_trade_cost for a taker order of one unit at
\* `price` cents: notional * taker_bps / 10000 + gas + withdrawal fee.
estimate_trade_cost(venue, price) ==
    price * FeeModels[venue].taker_bps + FeeModels[venue].gas_estimate
        + FeeModels[venue].withdrawal_fee

\* FeeCalculator.calculate_effective_price for a BUY of one unit: the
\* price itself when the notional is 0, else price + cost per unit.
calculate_effective_price(venue, price) ==
    IF price = 0
    THEN 0
    ELSE price * MicrosPerCent + estimate_trade_cost(venue, price)

\* One direction's edge in bps: max(0, (1 - sum) * 10000).
EdgeOf(sum) ==
    IF sum >= MicrosPerUsd THEN <<0, 1>> ELSE Rat(MicrosPerUsd - sum, 100)

\* odds.calculate_arbitrage_edge (total_costs = 0): the edge returned and
\* the direction named in the rationale.
calculate_arbitrage_edge(ask_yes_a, ask_no_b, ask_no_a, ask_yes_b) ==
    LET edge1_bps == EdgeOf(ask_yes_a + ask_no_b)
        edge2_bps == EdgeOf(ask_no_a + ask_yes_b)
    IN IF RLess(edge2_bps, edge1_bps)
       THEN [edge_bps |-> edge1_bps, rationale |-> "YES@A+NO@B"]
       ELSE [edge_bps |-> edge2_bps, rationale |-> "NO@A+YES@B"]

\* odds.min_executable_qty, with max_capital in USD.
min_executable_qty(qty_yes, qty_no, max_capital, price_yes, price_no) ==
    LET capital_per_unit == price_yes + price_no
        qty_limit_capital == IF capital_per_unit > 0
                             THEN Rat(max_capital * MicrosPerUsd, capital_per_unit)
                             ELSE <<0, 1>>
        qty_limit_liquidity == RInt(Min(qty_yes, qty_no))
    IN RMin(qty_limit_capital, qty_limit_liquidity)

\* odds.is_arbitrage_profitable (notional in millionths of a dollar).
is_arbitrage_profitable(edge_bps, min_edge, notional, min_notional) ==
    /\ RLeq(RInt(min_edge), edge_bps)
    /\ RLeq(RInt(min_notional * MicrosPerUsd), notional)

\* A contract id is a string; it is kept as <<head, rest>>, the text
\* before its first '_' and the text after it, so that
\* cid.startswith(f"{venue.value}_") is head = venue.
ContractId(head, rest) == <<head, rest>>

starts_with_venue(cid, venue) == cid[1] = venue

\* A Contract as list_contracts returns it: normalized_event_id is the
\* venue's market id, event_key the title; expires_in is the time from
\* now to expires_at, in seconds.
Contract(venue, cid, market_id, side, title, expires_in) ==
    [venue |-> venue, contract_id |-> cid, normalized_event_id |-> market_id,
     side |-> side, event_key |-> title, expires_in |-> expires_in]

Quote(venue, cid, ask, bid_size, ask_size) ==
    [venue |-> venue, contract_id |-> cid, best_ask |-> ask,
     best_bid_size |-> bid_size, best_ask_size |-> ask_size]

\* The engine's state: the registry its mappers write to and the caches.
\* _contracts_cache is a dict, kept as the sequence of its items in
\* insertion order; _quotes_cache is a function of the contract id.
Engine(reg, cc, qc) == [registry |-> reg, contracts_cache |-> cc, quotes_cache |-> qc]

HasKey(cache, venue) == \E i \in 1..Len(cache) : cache[i].venue = venue

\* _contracts_cache[venue] = contracts: an existing key keeps its place.
CacheSet(cache, venue, contracts) ==
    IF HasKey(cache, venue)
    THEN [i \in 1..Len(cache) |->
            IF cache[i].venue = venue
            THEN [venue |-> venue, contracts |-> contracts] ELSE cache[i]]
    ELSE Append(cache, [venue |-> venue, contracts |-> contracts])

\* _fetch_contracts lines 129-156: each contract is passed to the venue's
\* mapper; a mapped one gets the event id and is kept, the others are
\* dropped.  `acc` is the registry so far and the contracts kept so far.
KeepMapped(acc, contract, m) ==
    [registry |-> m.registry,
     mapped |-> IF m.result # NoneId
                THEN Append(acc.mapped, [contract EXCEPT !.normalized_event_id = m.result])
                ELSE acc.mapped]

RECURSIVE MapContracts(_, _, _)
MapContracts(acc, venue, contracts) ==
    IF contracts = <<>>
    THEN acc
    ELSE MapContracts(
             KeepMapped(acc, Head(contracts),
                        map_to_event_id(acc.registry, venue,
                                        Head(contracts).normalized_event_id,
                                        Head(contracts).event_key, <<>>)),
             venue, Tail(contracts))

\* _fetch_contracts lines 153-156: the mapped contracts replace the
\* venue's cache entry.
StoreContracts(eng, venue, r) ==
    [eng EXCEPT !.registry = r.registry,
                !.contracts_cache = CacheSet(@, venue, r.mapped)]

\* An engine whose failed fetch empties the venue's cache entry.
FetchContractsClearing(eng, venue, outcome) ==
    IF outcome.kind = "raise"
    THEN [eng EXCEPT !.contracts_cache = CacheSet(@, venue, <<>>)]
    ELSE StoreContracts(eng, venue,
                        MapContracts([registry |-> eng.registry, mapped |-> <<>>],
                                     venue, outcome.contracts))

\* _fetch_contracts: list_contracts raised (the except branch only
\* prints), or its contracts are mapped and stored.
fetch_contracts(eng, venue, outcome) ==
    IF outcome.kind = "raise"
    THEN eng
    ELSE StoreContracts(eng, venue,
                        MapContracts([registry |-> eng.registry, mapped |-> <<>>],
                                     venue, outcome.contracts))

\* _refresh_contracts: one _fetch_contracts per connector, gathered;
\* `order` is the order in which the fetches complete.
RECURSIVE refresh_contracts(_, _, _)
refresh_contracts(eng, order, outcomes) ==
    IF order = <<>>
    THEN eng
    ELSE refresh_contracts(fetch_contracts(eng, Head(order), outcomes[Head(order)]),
                           Tail(order), outcomes)

\* next((c for c in group if c.side.value == side), None), as a sequence
\* holding the contract or nothing.
FirstWithSide(contracts, event_id, side) ==
    LET hits == { i \in 1..Len(contracts) :
                    /\ contracts[i].normalized_event_id = event_id
                    /\ contracts[i].side = side }
    IN IF hits = {} THEN <<>>
       ELSE <<contracts[CHOOSE i \in hits : \A j \in hits : i <= j]>>

MatchedPair(event_id, contract_a, contract_b) ==
    [event_id |-> event_id, contract_a |-> contract_a, contract_b |-> contract_b]

\* The pairs _match_by_event_id makes for one common event id: the YES
\* contracts of the two venues, then their NO contracts.
PairsOfEvent(contracts_a, contracts_b, event_id) ==
    LET yes_a == FirstWithSide(contracts_a, event_id, "YES")
        no_a == FirstWithSide(contracts_a, event_id, "NO")
        yes_b == FirstWithSide(contracts_b, event_id, "YES")
        no_b == FirstWithSide(contracts_b, event_id, "NO")
    IN (IF yes_a # <<>> /\ yes_b # <<>>
        THEN <<MatchedPair(event_id, yes_a[1], yes_b[1])>> ELSE <<>>)
       \o (IF no_a # <<>> /\ no_b # <<>>
           THEN <<MatchedPair(event_id, no_a[1], no_b[1])>> ELSE <<>>)

EventIdsOf(contracts) == { contracts[i].normalized_event_id : i \in 1..Len(contracts) }

\* _match_by_event_id.  The common event ids are iterated as a Python
\* set; the markets modelled share at most one event, so there is one
\* order only.
RECURSIVE PairsOfEvents(_, _, _)
PairsOfEvents(contracts_a, contracts_b, event_ids) ==
    IF event_ids = {}
    THEN <<>>
    ELSE LET e == CHOOSE x \in event_ids : TRUE
         IN PairsOfEvent(contracts_a, contracts_b, e)
                \o PairsOfEvents(contracts_a, contracts_b, event_ids \ {e})

match_by_event_id(contracts_a, contracts_b) ==
    PairsOfEvents(contracts_a, contracts_b,
                  EventIdsOf(contracts_a) \cap EventIdsOf(contracts_b))

\* _get_matched_pairs: the first two venues of the cache.
get_matched_pairs(cache) ==
    IF Len(cache) < 2
    THEN <<>>
    ELSE match_by_event_id(cache[1].contracts, cache[2].contracts)

\* _refresh_quotes lines 190-201: the ids asked of a venue.
PairContractIds(pairs) ==
    { pairs[i].contract_a.contract_id : i \in 1..Len(pairs) }
        \cup { pairs[i].contract_b.contract_id : i \in 1..Len(pairs) }

venue_contracts(pairs, venue) ==
    { cid \in PairContractIds(pairs) : starts_with_venue(cid, venue) }

\* What get_quotes returns when it returns: a quote for each id asked.
QuotesReturned(venue, ids, outcome) ==
    { Quote(venue, cid, outcome.ask, outcome.size, outcome.size) : cid \in ids }

\* _fetch_quotes: get_quotes raised, or each quote is stored by its id.
fetch_quotes(qc, venue, ids, outcome) ==
    IF outcome.kind = "raise"
    THEN qc
    ELSE LET quotes == QuotesReturned(venue, ids, outcome)
         IN [cid \in DOMAIN qc \cup { q.contract_id : q \in quotes } |->
                IF \E q \in quotes : q.contract_id = cid
                THEN CHOOSE q \in quotes : q.contract_id = cid
                ELSE qc[cid]]

\* _refresh_quotes: a venue is asked only if some id starts with its name.
refresh_quotes(qc, pairs, outcomes) ==
    LET after(q, venue) ==
            IF venue_contracts(pairs, venue) # {}
            THEN fetch_quotes(q, venue, venue_contracts(pairs, venue), outcomes[venue])
            ELSE q
    IN after(after(qc, "polymarket"), "kalshi")

has_sufficient_liquidity(quote_a, quote_b) ==
    /\ quote_a.best_bid_size >= min_size
    /\ quote_a.best_ask_size >= min_size
    /\ quote_b.best_bid_size >= min_size
    /\ quote_b.best_ask_size >= min_size

OrderRequest(venue, cid, side, price, qty) ==
    [venue |-> venue, contract_id |-> cid, side |-> side, price |-> price,
     qty |-> qty, tif |-> "IOC"]

\* The ArbOpportunity both directions construct from a pair.
ArbOpportunity(pair, quote_a, quote_b, qty, edge, notional) ==
    [event_id |-> pair.event_id,
     leg_a |-> OrderRequest(pair.contract_a.venue, pair.contract_a.contract_id,
                            "BUY", quote_a.best_ask, qty),
     leg_b |-> OrderRequest(pair.contract_b.venue, pair.contract_b.contract_id,
                            "BUY", quote_b.best_ask, qty),
     edge_bps |-> edge.edge_bps, notional |-> notional,
     expires_in |-> pair.contract_a.expires_in, rationale |-> edge.rationale]

\* An engine that constructs the opportunity without testing the edge,
\* the quantity or the notional.
DirectionUnguarded(pair, quote_a, quote_b, direction) ==
    LET eff_a == calculate_effective_price(pair.contract_a.venue, quote_a.best_ask)
        eff_b == calculate_effective_price(pair.contract_b.venue, quote_b.best_ask)
        edge == IF direction = "YES@A+NO@B"
                THEN calculate_arbitrage_edge(eff_a, eff_b, 0, 0)
                ELSE calculate_arbitrage_edge(0, 0, eff_a, eff_b)
        qty == min_executable_qty(quote_a.best_ask_size, quote_b.best_ask_size,
                                  min_notional_usd, eff_a, eff_b)
        notional == RScale(qty, eff_a + eff_b)
    IN <<ArbOpportunity(pair, quote_a, quote_b, qty, edge, notional)>>

\* _calculate_direction_opportunities.  Both directions price the same
\* two asks; they differ in the argument positions in which the effective
\* prices reach calculate_arbitrage_edge, the other two being 0.0.
calculate_direction_opportunities(pair, quote_a, quote_b, direction) ==
    LET eff_a == calculate_effective_price(pair.contract_a.venue, quote_a.best_ask)
        eff_b == calculate_effective_price(pair.contract_b.venue, quote_b.best_ask)
        edge == IF direction = "YES@A+NO@B"
                THEN calculate_arbitrage_edge(eff_a, eff_b, 0, 0)
                ELSE calculate_arbitrage_edge(0, 0, eff_a, eff_b)
        qty == min_executable_qty(quote_a.best_ask_size, quote_b.best_ask_size,
                                  min_notional_usd, eff_a, eff_b)
        notional == RScale(qty, eff_a + eff_b)
    IN IF /\ RLeq(RInt(min_edge_bps), edge.edge_bps)
          /\ RLeq(RInt(1), qty)
          /\ RLeq(RInt(min_notional_usd * MicrosPerUsd), notional)
       THEN <<ArbOpportunity(pair, quote_a, quote_b, qty, edge, notional)>>
       ELSE <<>>

\* _find_pair_opportunities
find_pair_opportunities(qc, pair) ==
    LET id_a == pair.contract_a.contract_id
        id_b == pair.contract_b.contract_id
    IN IF id_a \notin DOMAIN qc \/ id_b \notin DOMAIN qc
       THEN <<>>
       ELSE IF ~has_sufficient_liquidity(qc[id_a], qc[id_b])
       THEN <<>>
       ELSE calculate_direction_opportunities(pair, qc[id_a], qc[id_b], "YES@A+NO@B")
              \o calculate_direction_opportunities(pair, qc[id_a], qc[id_b], "NO@A+YES@B")

\* discover_opportunities lines 105-107: the pairs' opportunities, in order.
RECURSIVE find_opportunities(_, _)
find_opportunities(qc, pairs) ==
    IF pairs = <<>>
    THEN <<>>
    ELSE find_pair_opportunities(qc, Head(pairs)) \o find_opportunities(qc, Tail(pairs))

\* list.sort(key=edge_bps, reverse=True): stable, highest edge first.
RECURSIVE SortByEdge(_)
SortByEdge(opps) ==
    IF opps = <<>>
    THEN <<>>
    ELSE LET best == CHOOSE i \in 1..Len(opps) :
                        /\ \A j \in 1..Len(opps) : RLeq(opps[j].edge_bps, opps[i].edge_bps)
                        /\ \A j \in 1..(i - 1) : RLess(opps[j].edge_bps, opps[i].edge_bps)
         IN <<opps[best]>>
              \o SortByEdge([k \in 1..(Len(opps) - 1) |->
                                IF k < best THEN opps[k] ELSE opps[k + 1]])

\* _filter_opportunities
filter_opportunities(opps) ==
    SortByEdge(SelectSeq(opps, LAMBDA opp :
        /\ is_arbitrage_profitable(opp.edge_bps, min_edge_bps,
                                   opp.notional, min_notional_usd)
        /\ ~(opp.expires_in < MinSecondsToExpiry)))

\* discover_opportunities: the engine afterwards, the venue calls made,
\* the opportunities constructed and the list returned.
Discovered(eng, listed, matched_pairs, qc, opportunities) ==
    [engine |-> [eng EXCEPT !.quotes_cache = qc],
     listed |-> listed,
     quoted |-> { v \in Venue : venue_contracts(matched_pairs, v) # {} },
     pairs |-> matched_pairs,
     constructed |-> opportunities,
     result |-> filter_opportunities(opportunities)]

\* Lines 104-112, with the quotes refreshed.
DiscoverFromQuotes(eng, listed, matched_pairs, qc) ==
    Discovered(eng, listed, matched_pairs, qc, find_opportunities(qc, matched_pairs))

\* Lines 101-112, with the pairs matched.
DiscoverFromPairs(eng, listed, matched_pairs, quote_outcomes) ==
    DiscoverFromQuotes(eng, listed, matched_pairs,
                       refresh_quotes(eng.quotes_cache, matched_pairs, quote_outcomes))

\* Lines 98-112, with the contracts cache as the call uses it.
DiscoverFromContracts(eng, listed, quote_outcomes) ==
    DiscoverFromPairs(eng, listed, get_matched_pairs(eng.contracts_cache), quote_outcomes)

discover_opportunities(eng, refresh, order, list_outcomes, quote_outcomes) ==
    IF refresh \/ eng.contracts_cache = <<>>
    THEN DiscoverFromContracts(refresh_contracts(eng, order, list_outcomes), Venue,
                               quote_outcomes)
    ELSE DiscoverFromContracts(eng, {}, quote_outcomes)

\* The engine held in the variables.
EngineState == Engine(RegistryState, contracts_cache, quotes_cache)

NoDiscovery ==
    [op |-> "none", n |-> 0, before |-> Engine(Registry({}, <<>>), <<>>, <<>>),
     listed |-> {}, quoted |-> {}, list_outcomes |-> <<>>, quote_outcomes |-> <<>>,
     pairs |-> <<>>, constructed |-> <<>>, result |-> <<>>]

InitDiscovery ==
    /\ contracts_cache = <<>>
    /\ quotes_cache = <<>>
    /\ last_discovery = NoDiscovery

\* The record of a call: the engine before it, the venue calls it made
\* with what each did, and what it constructed and returned.
DiscoveryCall(d, list_outcomes, quote_outcomes) ==
    [op |-> "discover", n |-> last_discovery.n + 1, before |-> EngineState,
     listed |-> d.listed, quoted |-> d.quoted,
     list_outcomes |-> [v \in d.listed |-> list_outcomes[v]],
     quote_outcomes |-> [v \in d.quoted |-> quote_outcomes[v]],
     pairs |-> d.pairs, constructed |-> d.constructed, result |-> d.result]

SetEngine(eng) ==
    /\ events' = eng.registry.events
    /\ mappings' = eng.registry.mappings
    /\ contracts_cache' = eng.contracts_cache
    /\ quotes_cache' = eng.quotes_cache

\* One discover_opportunities call.  The inputs that the call does not
\* use (a venue it does not ask) are not part of the step.
DiscoverOpportunities(refresh, order, list_outcomes, quote_outcomes) ==
    /\ last_discovery.n < MaxDiscoveryCalls
    /\ \E d \in {discover_opportunities(EngineState, refresh, order,
                                         list_outcomes, quote_outcomes)} :
          /\ SetEngine(d.engine)
          /\ last_discovery' = DiscoveryCall(d, list_outcomes, quote_outcomes)
    /\ UNCHANGED last_map
    /\ UNCHANGED <<execVars, riskVars, sizerVars, portfolioVars, hedgeVars, liveVars>>

----------------------------------------------------------------------------
(* Settings.is_live_trading_enabled (src/src/core/config.py), the live    *)
(* script (src/src/scripts/run_live.py) and LiveTradingEngine              *)
(* (src/src/core/live.py).                                                 *)
(*                                                                         *)
(* The script and the engine's loop are followed statement by statement;   *)
(* a step ends where the code awaits.  What the risk manager's limit       *)
(* gates, the position sizer and the venues' place_order answer is an      *)
(* input of the step that asks them.  The clock of the risk manager does   *)
(* not move: the ticks modelled take seconds, its unit is the minute.      *)

\* Bound: passes of _discovery_loop modelled.
MaxLiveTicks == 1

TradingMode == {"paper", "live", "backtest"}

\* The settings the guards read; Settings' defaults are paper and False.
Settings(mode, confirm_live) == [mode |-> mode, confirm_live |-> confirm_live]

DefaultSettings == Settings("paper", FALSE)

\* A guard that looks at the mode only.
EnabledByModeAlone(s) == s.mode = "live"

\* Settings.is_live_trading_enabled
is_live_trading_enabled(s) == s.mode = "live" /\ s.confirm_live

\* connectors.items(): the script inserts Polymarket first.
VenueOrder == <<"polymarket", "kalshi">>

\* The part of the RiskManager that record_error reads and writes.
ErrorState ==
    [error_counts |-> error_counts, circuit_breakers |-> circuit_breakers,
     circuit_breaker_timestamps |-> circuit_breaker_timestamps]

\* RiskManager.record_error on that state.
record_error(rs, venue) ==
    LET errs == DequeAppend(rs.error_counts[venue], now, WindowCapacity)
        trigger == should_trigger_circuit_breaker(errs, latency_measurements[venue],
                                                  now, circuit_breaker_error_rate)
    IN [error_counts |-> [rs.error_counts EXCEPT ![venue] = errs],
        circuit_breakers |->
            IF trigger THEN [rs.circuit_breakers EXCEPT ![venue] = TRUE]
            ELSE rs.circuit_breakers,
        circuit_breaker_timestamps |->
            IF trigger THEN DictSet(rs.circuit_breaker_timestamps, venue, now)
            ELSE rs.circuit_breaker_timestamps]

\* record_error for each venue of a list, in order.
RECURSIVE record_errors(_, _)
record_errors(rs, venues) ==
    IF venues = <<>> THEN rs
    ELSE record_errors(record_error(rs, Head(venues)), Tail(venues))

SetErrorState(rs) ==
    /\ error_counts' = rs.error_counts
    /\ circuit_breakers' = rs.circuit_breakers
    /\ circuit_breaker_timestamps' = rs.circuit_breaker_timestamps

\* A venue call: the venue and the method.
VenueCall(venue, op) == <<venue, op>>

\* The step the driver took last: the venue calls that raised in it and
\* the error windows before it.
StepRecord(step, made, raised) ==
    [step |-> step, made |-> made, raised |-> raised, errors_before |-> error_counts]

NoStep == [step |-> "none", made |-> {}, raised |-> {},
           errors_before |-> [v \in Venue |-> <<>>]]

\* The driver before anything ran: the script at its first statement, no
\* engine object, the loop not entered.
NotStarted ==
    [script |-> "check", engine |-> "none", is_running |-> FALSE, pc |-> "none",
     ticks |-> 0, opportunities |-> <<>>, next |-> 1, last |-> NoStep]

InitLive ==
    /\ settings = DefaultSettings
    /\ live = NotStarted
    /\ venue_io = {}

OtherRiskVars ==
    <<now, latency_measurements, pnl_history, trades_history,
      circuit_breaker_error_rate, last_risk>>

\* What no step of the script or of the engine's start-up touches.
OutsideLive ==
    <<execVars, riskVars, sizerVars, portfolioVars, hedgeVars, registryVars,
      discoveryVars, settings>>

\* run_live.main lines 19-22: exit(1) unless live trading is enabled.
MainCheck ==
    /\ live.script = "check"
    /\ live' = [live EXCEPT !.script = IF is_live_trading_enabled(settings)
                                       THEN "prompt" ELSE "exit"]
    /\ UNCHANGED <<OutsideLive, venue_io>>

\* main lines 42-45: anything but CONFIRM ends the script.
MainConfirm(confirm) ==
    /\ live.script = "prompt"
    /\ live' = [live EXCEPT !.script = IF confirm = "CONFIRM"
                                       THEN "connect" ELSE "exit"]
    /\ UNCHANGED <<OutsideLive, venue_io>>

\* The venues _initialize_connectors connects before it returns or exits:
\* all of them, or those up to the first that fails.
Connected(failing) ==
    IF failing = "none" THEN {"polymarket", "kalshi"}
    ELSE IF failing = "polymarket" THEN {"polymarket"}
    ELSE {"polymarket", "kalshi"}

\* main line 48, _initialize_connectors: a venue that fails ends the script.
InitializeConnectors(failing) ==
    /\ live.script = "connect"
    /\ live' = [live EXCEPT !.script = IF failing = "none"
                                       THEN "construct" ELSE "exit"]
    /\ venue_io' = venue_io \cup { VenueCall(v, "connect") : v \in Connected(failing) }
    /\ UNCHANGED OutsideLive

\* LiveTradingEngine.__init__, called by main line 51 or, before the
\* script ran, by any other caller: RuntimeError unless live trading is
\* enabled.  main does not catch the exception.
LiveTradingEngineInit ==
    /\ \/ live.script = "construct"
       \/ live.script = "check" /\ live.engine = "none"
    /\ LET ok == is_live_trading_enabled(settings)
       IN live' = [live EXCEPT
                     !.engine = IF ok THEN "constructed" ELSE "refused",
                     !.script = IF live.script = "construct"
                                THEN (IF ok THEN "start" ELSE "exit")
                                ELSE @]
    /\ UNCHANGED <<OutsideLive, venue_io>>

\* main line 55: LiveTradingEngine.start up to the await of
\* _verify_balances.
Start ==
    /\ live.engine = "constructed"
    /\ live.pc = "none"
    /\ live.script = "start"
    /\ live' = [live EXCEPT !.is_running = TRUE, !.pc = "verify", !.script = "started"]
    /\ connectors' = Venue
    /\ UNCHANGED engine_call
    /\ UNCHANGED <<execVars, riskVars, sizerVars, portfolioVars, registryVars,
                   discoveryVars, settings, venue_io>>

\* The get_balance calls of a pass over the connectors in which `failing`
\* is the set of venues whose call raises; `stop` tells whether the first
\* exception ends the pass.
RECURSIVE BalanceCalls(_, _, _)
BalanceCalls(venues, failing, stop) ==
    IF venues = <<>> THEN <<>>
    ELSE IF Head(venues) \in failing /\ stop THEN <<Head(venues)>>
    ELSE <<Head(venues)>> \o BalanceCalls(Tail(venues), failing, stop)

\* _verify_balances: a get_balance that raises is re-raised, start ends
\* with that exception and, in the script, main's finally stops the engine.
VerifyBalances(failing) ==
    /\ live.pc = "verify"
    /\ LET asked == Range(BalanceCalls(VenueOrder, failing, TRUE))
           made == { VenueCall(v, "get_balance") : v \in asked }
           raised == { VenueCall(v, "get_balance") : v \in asked \cap failing }
       IN /\ venue_io' = venue_io \cup made
          /\ live' = [live EXCEPT
                        !.pc = IF raised = {} THEN "loop" ELSE "done",
                        !.is_running = IF raised = {} THEN @ ELSE FALSE,
                        !.script = IF raised = {} THEN @ ELSE "exit",
                        !.last = StepRecord("verify_balances", made, raised)]
    /\ UNCHANGED OutsideLive

\* LiveTradingEngine.stop
Stop ==
    /\ live.engine = "constructed"
    /\ live.is_running
    /\ live' = [live EXCEPT !.is_running = FALSE]
    /\ UNCHANGED <<OutsideLive, venue_io>>

\* `while self._is_running` of _discovery_loop.  When the loop ends,
\* start returns and main's finally runs.
LoopTestWithin(bound) ==
    /\ live.pc = "loop"
    /\ \/ live.is_running /\ live.ticks < bound
       \/ ~live.is_running
    /\ live' = [live EXCEPT
                  !.pc = IF live.is_running THEN "update_balances" ELSE "done",
                  !.script = IF live.is_running THEN @ ELSE "exit"]
    /\ UNCHANGED <<OutsideLive, venue_io>>

LoopTest == LoopTestWithin(MaxLiveTicks)

\* Bound on the errors recorded, as in the risk manager's own model.
ErrorsLeft == TotalLen(FreshErrors, Venue) + MaxNewErrors - TotalLen(error_counts, Venue)

SeqOf(venues) == SelectSeq(VenueOrder, LAMBDA v : v \in venues)

\* _update_balances: every venue is asked; an exception is recorded for
\* the venue that raised it.
UpdateBalances(failing) ==
    /\ live.pc = "update_balances"
    /\ Cardinality(failing) <= ErrorsLeft
    /\ LET made == { VenueCall(v, "get_balance") : v \in Venue }
           raised == { VenueCall(v, "get_balance") : v \in failing }
       IN /\ venue_io' = venue_io \cup made
          /\ SetErrorState(record_errors(ErrorState, SeqOf(failing)))
          /\ live' = [live EXCEPT !.pc = "discover",
                                  !.last = StepRecord("update_balances", made, raised)]
    /\ UNCHANGED OtherRiskVars
    /\ UNCHANGED <<execVars, sizerVars, portfolioVars, hedgeVars, registryVars,
                   discoveryVars, settings>>

\* The venue calls a discover_opportunities call made, and those that raised.
DiscoveryCalls(d) ==
    { VenueCall(v, "list_contracts") : v \in d.listed }
        \cup { VenueCall(v, "get_quotes") : v \in d.quoted }

DiscoveryRaised(d, list_outcomes, quote_outcomes) ==
    { VenueCall(v, "list_contracts") :
        v \in { w \in d.listed : list_outcomes[w].kind = "raise" } }
        \cup { VenueCall(v, "get_quotes") :
                v \in { w \in d.quoted : quote_outcomes[w].kind = "raise" } }

\* _discovery_loop lines 110-116: discover_opportunities(connectors,
\* refresh_contracts=False); its result becomes _last_opportunities.
LiveDiscover(order, list_outcomes, quote_outcomes) ==
    /\ live.pc = "discover"
    /\ \E d \in {discover_opportunities(EngineState, FALSE, order,
                                        list_outcomes, quote_outcomes)} :
          /\ SetEngine(d.engine)
          /\ last_discovery' = DiscoveryCall(d, list_outcomes, quote_outcomes)
          /\ venue_io' = venue_io \cup DiscoveryCalls(d)
          /\ live' = [live EXCEPT
                        !.pc = IF d.result = <<>> THEN "update_portfolio" ELSE "process",
                        !.opportunities = d.result, !.next = 1,
                        !.last = StepRecord("discover", DiscoveryCalls(d),
                                            DiscoveryRaised(d, list_outcomes,
                                                            quote_outcomes))]
    /\ UNCHANGED last_map
    /\ UNCHANGED <<execVars, riskVars, sizerVars, portfolioVars, hedgeVars, settings>>

\* A loop without the except branch: the exception ends _discovery_loop.
ExceptEscaping ==
    /\ live.pc \in {"discover", "status"}
    /\ live' = [live EXCEPT !.pc = "done", !.script = "exit",
                            !.last = StepRecord("except", {}, {})]
    /\ UNCHANGED <<OutsideLive, venue_io>>

\* The except branch of _discovery_loop, lines 130-133, for an exception
\* that leaves discover_opportunities or the status print: the error is
\* recorded under Polymarket and the loop goes on.
LoopExcept ==
    /\ live.pc \in {"discover", "status"}
    /\ ErrorsLeft >= 1
    /\ SetErrorState(record_error(ErrorState, "polymarket"))
    /\ live' = [live EXCEPT !.pc = "loop", !.ticks = @ + 1,
                            !.last = StepRecord("except", {}, {})]
    /\ UNCHANGED OtherRiskVars
    /\ UNCHANGED <<execVars, sizerVars, portfolioVars, hedgeVars, registryVars,
                   discoveryVars, settings, venue_io>>

\* The opportunity as the execution engine and the trade record take it:
\* the legs, and the edge in whole basis points (the edges discovery
\* computes from whole-cent prices that pass its tests are whole).
ExecOpp(opp) ==
    Opp(opp.event_id,
        Leg(opp.leg_a.venue, opp.leg_a.contract_id, opp.leg_a.side, opp.leg_a.price),
        Leg(opp.leg_b.venue, opp.leg_b.contract_id, opp.leg_b.side, opp.leg_b.price),
        opp.edge_bps[1] \div opp.edge_bps[2],
        opp.notional[1] \div (opp.notional[2] * MicrosPerUsd))

\* _get_current_positions: the exposure by event, qty * avg_price summed
\* over the positions with qty > 0, in USD (prices are in cents; the
\* sizes and prices of the model give whole dollars).
position_exposure(position) ==
    IF position.qty > 0
    THEN (position.qty * position.avg_price[1])
            \div (position.avg_price[2] * (MicrosPerUsd \div MicrosPerCent))
    ELSE 0

get_current_positions(posns) ==
    [e \in DOMAIN posns |->
        SumSeq([i \in 1..Len(SeqOf(DOMAIN posns[e])) |->
                   position_exposure(posns[e][SeqOf(DOMAIN posns[e])[i]])])]

\* What _execute_both_legs comes to: it raises (the last attempt of the
\* leg placed first raised), or it returns None or the list of fills.
Execution(raised, fl) == [raised |-> raised, fills |-> fl]

LiveExecutions ==
    { Execution(TRUE, NoList), Execution(FALSE, NoList),
      Execution(FALSE, FillList(Fill(0), Fill(0))),
      Execution(FALSE, FillList(NoFill, Fill(0))) }

\* The place_order calls of one _execute_leg: one that fills, or
\* max_retries that do not.
LegAttempts(l, kind) ==
    IF kind = "fill"
    THEN <<[leg |-> l, attempt |-> 0, kind |-> "fill"]>>
    ELSE [i \in 1..max_retries |-> [leg |-> l, attempt |-> i - 1, kind |-> kind]]

\* The place_order calls of an execution, the leg placed first first.
PlacedOrders(opp, e) ==
    LET first == FirstLeg(opp)
        second == OtherLeg(first)
        filled(l) == IF l = "a" THEN e.fills.a.filled ELSE e.fills.b.filled
    IN IF e.raised THEN LegAttempts(first, "raise")
       ELSE IF ~e.fills.list THEN LegAttempts(first, "none")
       ELSE LegAttempts(first, "fill")
                \o LegAttempts(second, IF filled(second) THEN "fill" ELSE "none")

\* The venues those place_order calls went to.
PlacedVenues(opp, e) ==
    { LegOf(opp, PlacedOrders(opp, e)[i].leg).venue :
        i \in 1..Len(PlacedOrders(opp, e)) }

\* The Trade execute_opportunity leaves in its history, and what it returns.
ExecutedTrade(opp, size, e) ==
    IF e.raised THEN fail_trade(NewTrade(opp, size))
    ELSE settle_trade(NewTrade(opp, size), e.fills)

ExecutionReturns(e) == IF ~e.raised /\ fills_truthy(e.fills) THEN "Trade" ELSE "None"

\* RiskManager.record_trade on the two histories.
record_trade(th, ph, trade) ==
    [trades_history |-> Append(th, trade.pnl),
     pnl_history |-> IF trade.pnl # 0 THEN DequeAppend(ph, trade.pnl, PnlCapacity)
                     ELSE ph]

\* Where the loop goes after the opportunity at `next`.
AfterOpportunity == IF live.next < Len(live.opportunities) THEN "process" ELSE "update_portfolio"

\* One pass of the for loop of _process_opportunities.  `fault` is an
\* exception raised before the risk check returns; `size` is what the
\* position sizer answers (it is at least 1); `e` is what the execution
\* comes to.
ProcessOpportunity(fault, size, e) ==
    /\ live.pc = "process"
    /\ live.next <= Len(live.opportunities)
    /\ LET opp == ExecOpp(live.opportunities[live.next])
           r == check_trade_risk(opp, get_current_positions(positions),
                                 circuit_breakers, circuit_breaker_timestamps,
                                 pnl_history, now)
           trade == ExecutedTrade(opp, size, e)
           tid == Len(trades) + 1
           traded == ExecutionReturns(e) = "Trade"
           made == { VenueCall(v, "place_order") : v \in PlacedVenues(opp, e) }
           raised == IF e.raised
                     THEN { VenueCall(LegOf(opp, FirstLeg(opp)).venue, "place_order") }
                     ELSE {}
       IN IF fault
          THEN /\ ErrorsLeft >= 1
               /\ SetErrorState(record_error(ErrorState, "polymarket"))
               /\ live' = [live EXCEPT !.pc = AfterOpportunity, !.next = @ + 1,
                                       !.last = StepRecord("process", {}, {})]
               /\ UNCHANGED <<execVars, portfolioVars, pnl_history, trades_history,
                              venue_io>>
          ELSE IF ~r.allowed
          THEN /\ circuit_breakers' = r.cb
               /\ circuit_breaker_timestamps' = r.ts
               /\ live' = [live EXCEPT !.pc = AfterOpportunity, !.next = @ + 1,
                                       !.last = StepRecord("process", {}, {})]
               /\ UNCHANGED <<execVars, portfolioVars, error_counts, pnl_history,
                              trades_history, venue_io>>
          ELSE /\ Len(trades) < MaxTrades
               /\ circuit_breakers' = r.cb
               /\ circuit_breaker_timestamps' = r.ts
               /\ trades' = Append(trades, trade)
               /\ fills' = Append(fills, e.fills)
               /\ orders' = PlacedOrders(opp, e)
               /\ history' = Append(history, tid)
               /\ returned' = Append(returned, ExecutionReturns(e))
               /\ UNCHANGED <<active, call>>
               /\ venue_io' = venue_io \cup made
               /\ IF traded
                  THEN /\ SetPortfolio(add_trade(PortfolioState, trade))
                       /\ \E h \in {record_trade(trades_history, pnl_history, trade)} :
                             /\ trades_history' = h.trades_history
                             /\ pnl_history' = h.pnl_history
                  ELSE UNCHANGED <<portfolioVars, pnl_history, trades_history>>
               /\ live' = [live EXCEPT !.pc = AfterOpportunity, !.next = @ + 1,
                                       !.last = StepRecord("process", made, raised)]
               /\ UNCHANGED error_counts
    /\ UNCHANGED <<now, latency_measurements, circuit_breaker_error_rate, last_risk>>
    /\ UNCHANGED <<sizerVars, hedgeVars, registryVars, discoveryVars, settings>>

\* What one venue's part of _update_portfolio comes to.
PortfolioOutcomes == {"quotes", "list_raises", "quotes_raise"}

\* _update_portfolio: every venue is asked for its contracts and then
\* for their quotes; an exception is recorded for the venue that raised
\* it and the next venue is asked.  (update_quotes changes the quotes the
\* portfolio values its positions with, which are not part of its state
\* here.)
UpdatePortfolio(outcomes) ==
    /\ live.pc = "update_portfolio"
    /\ LET failing == { v \in Venue : outcomes[v] # "quotes" }
           made == { VenueCall(v, "list_contracts") : v \in Venue }
                     \cup { VenueCall(v, "get_quotes") :
                              v \in { w \in Venue : outcomes[w] # "list_raises" } }
           raised == { VenueCall(v, "list_contracts") :
                         v \in { w \in Venue : outcomes[w] = "list_raises" } }
                       \cup { VenueCall(v, "get_quotes") :
                                v \in { w \in Venue : outcomes[w] = "quotes_raise" } }
       IN /\ Cardinality(failing) <= ErrorsLeft
          /\ venue_io' = venue_io \cup made
          /\ SetErrorState(record_errors(ErrorState, SeqOf(failing)))
          /\ live' = [live EXCEPT !.pc = "status",
                                  !.last = StepRecord("update_portfolio", made, raised)]
    /\ UNCHANGED OtherRiskVars
    /\ UNCHANGED <<execVars, sizerVars, portfolioVars, hedgeVars, registryVars,
                   discoveryVars, settings>>

\* _print_status and the sleep that ends the pass.
PrintStatus ==
    /\ live.pc = "status"
    /\ live' = [live EXCEPT !.pc = "loop", !.ticks = @ + 1,
                            !.last = StepRecord("status", {}, {})]
    /\ UNCHANGED <<OutsideLive, venue_io>>

----------------------------------------------------------------------------
(* PaperTradingEngine (src/src/core/paper.py)                             *)
(*                                                                         *)
(* The paper engine's loop is followed in the same record as the live     *)
(* engine's, with engine = "paper" and its own positions "paper_...".     *)
(* It asks the venues for contracts and quotes only; its trades are       *)
(* simulated and go to the portfolio and to the risk manager's histories. *)

\* Bound: passes of a _discovery_loop in the model of the two loops.
MaxLoopTicks == 2

\* PaperTradingEngine.stop
PaperStop ==
    /\ live.engine = "paper"
    /\ live.is_running
    /\ live' = [live EXCEPT !.is_running = FALSE]
    /\ UNCHANGED <<OutsideLive, venue_io>>

\* `while self._is_running` of the paper _discovery_loop.
PaperLoopTest ==
    /\ live.pc = "paper_loop"
    /\ \/ live.is_running /\ live.ticks < MaxLoopTicks
       \/ ~live.is_running
    /\ live' = [live EXCEPT
                  !.pc = IF live.is_running THEN "paper_discover" ELSE "paper_done",
                  !.script = IF live.is_running THEN @ ELSE "exit"]
    /\ UNCHANGED <<OutsideLive, venue_io>>

\* Lines 82-87: discover_opportunities(connectors, refresh_contracts=False).
PaperDiscover(order, list_outcomes, quote_outcomes) ==
    /\ live.pc = "paper_discover"
    /\ \E d \in {discover_opportunities(EngineState, FALSE, order,
                                        list_outcomes, quote_outcomes)} :
          /\ SetEngine(d.engine)
          /\ last_discovery' = DiscoveryCall(d, list_outcomes, quote_outcomes)
          /\ venue_io' = venue_io \cup DiscoveryCalls(d)
          /\ live' = [live EXCEPT
                        !.pc = IF d.result = <<>> THEN "paper_status" ELSE "paper_process",
                        !.opportunities = d.result, !.next = 1,
                        !.last = StepRecord("discover", DiscoveryCalls(d),
                                            DiscoveryRaised(d, list_outcomes,
                                                            quote_outcomes))]
    /\ UNCHANGED last_map
    /\ UNCHANGED <<execVars, riskVars, sizerVars, portfolioVars, hedgeVars, settings>>

\* The except branch of the paper loop, lines 101-103: print and sleep.
PaperExcept ==
    /\ live.pc \in {"paper_discover", "paper_status"}
    /\ live' = [live EXCEPT !.pc = "paper_loop", !.ticks = @ + 1,
                            !.last = StepRecord("except", {}, {})]
    /\ UNCHANGED <<OutsideLive, venue_io>>

\* _simulate_fee and _calculate_paper_pnl, in pips: qty * taker_bps/10000
\* dollars a leg, and qty * edge_bps/10000 dollars less the two fees.
simulate_fee(venue, qty) == qty * FeeModels[venue].taker_bps

calculate_paper_pnl(opp, qty) ==
    qty * opp.edge_bps - simulate_fee(opp.leg_a.venue, qty)
        - simulate_fee(opp.leg_b.venue, qty)

\* _execute_paper_trade: the Trade, filled at once.
execute_paper_trade(opp, size) ==
    [NewTrade(opp, size) EXCEPT
        !.fee_a = simulate_fee(opp.leg_a.venue, size),
        !.fee_b = simulate_fee(opp.leg_b.venue, size),
        !.pnl = calculate_paper_pnl(opp, size),
        !.status = "filled"]

PaperAfterOpportunity ==
    IF live.next < Len(live.opportunities) THEN "paper_process" ELSE "paper_status"

\* One pass of the for loop of the paper _process_opportunities.  `fault`
\* is an exception raised inside the try; it is printed and the next
\* opportunity is taken.  `size` is what the position sizer answers.
PaperProcessOpportunity(fault, size) ==
    /\ live.pc = "paper_process"
    /\ live.next <= Len(live.opportunities)
    /\ LET opp == ExecOpp(live.opportunities[live.next])
           r == check_trade_risk(opp, get_current_positions(positions),
                                 circuit_breakers, circuit_breaker_timestamps,
                                 pnl_history, now)
           trade == execute_paper_trade(opp, size)
       IN IF fault
          THEN /\ live' = [live EXCEPT !.pc = PaperAfterOpportunity, !.next = @ + 1,
                                       !.last = StepRecord("process_except", {}, {})]
               /\ UNCHANGED <<portfolioVars, circuit_breakers,
                              circuit_breaker_timestamps, pnl_history,
                              trades_history>>
          ELSE IF ~r.allowed
          THEN /\ circuit_breakers' = r.cb
               /\ circuit_breaker_timestamps' = r.ts
               /\ live' = [live EXCEPT !.pc = PaperAfterOpportunity, !.next = @ + 1,
                                       !.last = StepRecord("process", {}, {})]
               /\ UNCHANGED <<portfolioVars, pnl_history, trades_history>>
          ELSE /\ Len(ledger) < MaxLedger
               /\ circuit_breakers' = r.cb
               /\ circuit_breaker_timestamps' = r.ts
               /\ SetPortfolio(add_trade(PortfolioState, trade))
               /\ \E h \in {record_trade(trades_history, pnl_history, trade)} :
                     /\ trades_history' = h.trades_history
                     /\ pnl_history' = h.pnl_history
               /\ live' = [live EXCEPT !.pc = PaperAfterOpportunity, !.next = @ + 1,
                                       !.last = StepRecord("process", {}, {})]
    /\ UNCHANGED <<now, error_counts, latency_measurements,
                   circuit_breaker_error_rate, last_risk>>
    /\ UNCHANGED <<execVars, sizerVars, hedgeVars, registryVars, discoveryVars,
                   settings, venue_io>>

\* _update_portfolio (a placeholder that does nothing), _print_status and
\* the sleep that ends the pass.
PaperPrintStatus ==
    /\ live.pc = "paper_status"
    /\ live' = [live EXCEPT !.pc = "paper_loop", !.ticks = @ + 1,
                            !.last = StepRecord("status", {}, {})]
    /\ UNCHANGED <<OutsideLive, venue_io>>

----------------------------------------------------------------------------
(* Specifications                                                         *)

InitExt == InitHedge /\ InitRegistry /\ InitDiscovery /\ InitLive

Init == InitExec /\ InitRisk /\ InitSizer /\ InitPortfolio /\ InitExt

\* The execution engine driven by arbitrary venue responses.
NextExec ==
    \/ \E opp \in ExecOpportunities, size \in ExecSizes : ExecuteOpportunity(opp, size)
    \/ \E outcome \in PlaceOutcomes : PlaceOrder(outcome)

SpecExec == Init /\ [][NextExec]_vars

\* The execution engine with any set of connectors, every place_order
\* call returning or raising in the end.
InitExecFair ==
    /\ InitExec /\ InitRisk /\ InitSizer /\ InitPortfolio
    /\ InitRegistry /\ InitDiscovery /\ InitLive
    /\ engine_call = NoEngineCall
    /\ connectors \in SUBSET Venue

SpecExecFair ==
    /\ InitExecFair
    /\ [][NextExec]_vars
    /\ WF_vars(\E outcome \in PlaceOutcomes : PlaceOrder(outcome))

\* The circuit breakers.  Each venue's error window starts with the
\* MinErrors - 1 errors that record_error stored at time 0 (one short of
\* the count that can latch), and the configured error rate is 5% or 10%.
InitBreaker ==
    /\ InitExec /\ InitSizer /\ InitPortfolio /\ InitExt
    /\ now = 0
    /\ error_counts = LoadedErrors
    /\ latency_measurements = [v \in Venue |-> <<>>]
    /\ circuit_breakers = [v \in Venue |-> FALSE]
    /\ circuit_breaker_timestamps = [v \in {} |-> 0]
    /\ pnl_history = <<>>
    /\ trades_history = <<>>
    /\ circuit_breaker_error_rate \in {5, 10}
    /\ last_risk = NoRiskCall

\* The clock's steps: just inside, on and just past the 5 minutes.
TickChoices == {LatchMinutes - 1, LatchMinutes, LatchMinutes + 1}

LatencyChoices == {4000, 6000}

\* Opportunities that pass every limit gate, in both venue orders.
BreakerOpportunities ==
    { Opp("E1", Leg("polymarket", "pm-yes", "BUY", 40),
                Leg("kalshi", "k-no", "BUY", 50), 200, 100),
      Opp("E1", Leg("kalshi", "k-yes", "BUY", 45),
                Leg("polymarket", "pm-no", "BUY", 52), 200, 100) }

NextBreaker ==
    \/ \E d \in TickChoices : Tick(d)
    \/ \E v \in Venue : ErrorBudget(LoadedErrors) /\ RecordError(v)
    \/ \E v \in Venue, ms \in LatencyChoices : RecordLatency(v, ms)
    \/ \E v \in Venue : ResetCircuitBreaker(v)
    \/ \E opp \in BreakerOpportunities : CheckTradeRisk(opp, NoPositions)

SpecBreaker == InitBreaker /\ [][NextBreaker]_vars

\* The pre-trade check, with breakers latched by slow responses and a
\* PnL history built by record_trade.
PnlChoices == {0 - 50000, 0, 100000}

SlowLatency == {6000}

RiskOpportunities ==
    { Opp("E1", Leg("polymarket", "pm-yes", "BUY", 40),
                Leg("kalshi", "k-no", "BUY", 50), 200, 400),
      Opp("E1", Leg("kalshi", "k-yes", "BUY", 45),
                Leg("polymarket", "pm-no", "BUY", 52), 200, 400),
      Opp("E1", Leg("polymarket", "pm-yes", "BUY", 40),
                Leg("kalshi", "k-no", "BUY", 50), 50, 400),
      Opp("E1", Leg("kalshi", "k-yes", "BUY", 45),
                Leg("polymarket", "pm-no", "BUY", 52), 50, 1200) }

\* current_positions: exposure in USD by event id.
PositionChoices ==
    { NoPositions,
      [e \in {"E1"} |-> 4800],
      [e \in {"E2"} |-> 2800],
      [e \in {"E1", "E2"} |-> IF e = "E1" THEN 1000 ELSE 1500] }

NextRisk ==
    \/ \E d \in TickChoices : Tick(d)
    \/ \E v \in Venue, ms \in SlowLatency : RecordLatency(v, ms)
    \/ \E pnl \in PnlChoices : RecordTrade(pnl)
    \/ \E opp \in RiskOpportunities, pos \in PositionChoices : CheckTradeRisk(opp, pos)

SpecRisk == Init /\ [][NextRisk]_vars

\* The position sizer applied to a range of inputs.  Existing exposure is
\* within the caps in every choice.
SizerOpportunities ==
    { Opp("E1", Leg("polymarket", "pm-yes", "BUY", 40),
                Leg("kalshi", "k-no", "BUY", 50), 200, 1),
      Opp("E1", Leg("kalshi", "k-yes", "BUY", 45),
                Leg("polymarket", "pm-no", "BUY", 52), 3000, 100),
      Opp("E2", Leg("polymarket", "pm-yes2", "BUY", 30),
                Leg("kalshi", "k-no2", "BUY", 60), 0, 10) }

SizerPositions ==
    { NoPositions,
      [e \in {"E1"} |-> 2500],
      [e \in {"E2"} |-> 3000],
      [e \in {"E1", "E2"} |-> IF e = "E1" THEN 1000 ELSE 1500] }

\* Sizes handed to _apply_risk_limits.
SizeChoices == {<<1, 2>>, <<7, 2>>, <<12, 1>>, <<50, 1>>, <<2000, 1>>, <<4000, 1>>}

\* balances: available USD by venue (a venue may have no Balance).
BalanceChoices ==
    { [v \in Venue |-> 10000],
      [v \in Venue |-> IF v = "polymarket" THEN 0 ELSE 10000],
      [v \in {"kalshi"} |-> 10],
      [v \in {} |-> 0] }

NextSizer ==
    \/ \E size \in SizeChoices, opp \in SizerOpportunities, pos \in SizerPositions :
          ApplyRiskLimits(size, opp, pos)
    \/ \E opp \in SizerOpportunities, bal \in BalanceChoices, pos \in SizerPositions :
          CalculatePositionSize(opp, bal, pos)

SpecSizer == Init /\ [][NextSizer]_vars

\* The portfolio fed with completed trades.
PTrade(opp, qty, side_a, side_b, pnl) ==
    [NewTrade(opp, qty) EXCEPT !.side_a = side_a, !.side_b = side_b,
                               !.pnl = pnl, !.status = "filled"]

PortfolioTrades ==
    LET o1 == Opp("E1", Leg("polymarket", "pm-yes", "BUY", 40),
                        Leg("kalshi", "k-no", "BUY", 50), 1000, 100)
        o2 == Opp("E2", Leg("kalshi", "k-yes", "BUY", 45),
                        Leg("polymarket", "pm-no", "BUY", 52), 300, 100)
    IN { PTrade(o1, 10, "BUY", "BUY", 9700),
         PTrade(o1, 5, "BUY", "BUY", 0 - 300),
         PTrade(o1, 12, "SELL", "BUY", 0),
         PTrade(o2, 10, "BUY", "SELL", 2700),
         PTrade(o2, 20, "SELL", "SELL", 0 - 1000) }

NextPortfolio ==
    \/ \E trade \in PortfolioTrades : AddTrade(trade)
    \/ ResetPortfolio

SpecPortfolio == Init /\ [][NextPortfolio]_vars

\* The registry and the two mappers, called in any order.  The titles
\* are election questions with and without a country, and one that no
\* mapper recognises; the Kalshi markets are a ticker and an opaque id.
TitleTrump2028 ==
    <<"W", "i", "l", "l", " ", "T", "r", "u", "m", "p", " ", "w", "i", "n",
      " ", "t", "h", "e", " ", "2", "0", "2", "8", " ", "P", "r", "e", "s",
      "i", "d", "e", "n", "t", "i", "a", "l", " ", "E", "l", "e", "c", "t",
      "i", "o", "n", "?">>

TitleTrump2028US ==
    <<"W", "i", "l", "l", " ", "T", "r", "u", "m", "p", " ", "w", "i", "n",
      " ", "t", "h", "e", " ", "2", "0", "2", "8", " ", "U", "S", " ", "P",
      "r", "e", "s", "i", "d", "e", "n", "t", "i", "a", "l", " ", "E", "l",
      "e", "c", "t", "i", "o", "n", "?">>

TitleRain ==
    <<"R", "a", "i", "n", " ", " ", "i", "n", " ", "(", "P", "a", "r", "i",
      "s", ")", "?">>

TickerTrump2028 ==
    <<"P", "R", "E", "S", "-", "2", "0", "2", "8", "-", "T", "R", "U", "M",
      "P">>

MarketKxRain ==
    <<"K", "X", "R", "A", "I", "N">>

MarketPm1 ==
    <<"p", "m", "1">>

EventUsTrump2028 ==
    <<"E", "L", "E", "C", "T", "I", "O", "N", ":", "U", "S", ":", "P", "R",
      "E", "S", "I", "D", "E", "N", "T", ":", "2", "0", "2", "8", ":", "T",
      "R", "U", "M", "P">>

EventUsBiden2028 ==
    <<"E", "L", "E", "C", "T", "I", "O", "N", ":", "U", "S", ":", "P", "R",
      "E", "S", "I", "D", "E", "N", "T", ":", "2", "0", "2", "8", ":", "B",
      "I", "D", "E", "N">>

RegistryTitles == {TitleTrump2028, TitleTrump2028US, TitleRain}

RegistryMarkets ==
    {<<"polymarket", MarketPm1>>, <<"kalshi", TickerTrump2028>>,
     <<"kalshi", MarketKxRain>>}

RegistryEventIds == {EventUsTrump2028, EventUsBiden2028}

NextRegistry ==
    \/ \E e \in RegistryEventIds : AddEvent(e)
    \/ \E m \in RegistryMarkets, e \in RegistryEventIds :
            AddMapping(m[1], m[2], e, TitleRain)
    \/ \E m \in RegistryMarkets, t \in RegistryTitles : MapToEventId(m[1], m[2], t)

SpecRegistry == Init /\ [][NextRegistry]_vars

\* build_event_id called with the words of one id in several letter
\* cases and with whitespace around them.
W_election == <<"e", "l", "e", "c", "t", "i", "o", "n">>

W_us == <<"u", "s">>

EventTypeArgs == {W_ELECTION, W_election, <<"E", "l", "e", "c", "t", "i", "o", "n">>}

ScopeArgs == {W_US, W_us}

DescriptorArgs ==
    {W_PRESIDENT, <<"p", "r", "e", "s", "i", "d", "e", "n", "t", " ">>}

OutcomeArgs == {W_TRUMP, <<" ", "t", "r", "u", "m", "p">>, <<"T", "r", "u", "m", "p">>}

NextEventId ==
    \E event_type \in EventTypeArgs, scope \in ScopeArgs,
       descriptor \in DescriptorArgs, outcome \in OutcomeArgs :
        BuildEventId(event_type, scope, <<descriptor, <<"2", "0", "2", "8">>, outcome>>)

SpecEventId == Init /\ [][NextEventId]_vars

\* The engine's hedge and cancel operations next to execute_opportunity,
\* with and without a Kalshi connector.
InitHedgeSpec ==
    /\ InitExec /\ InitRisk /\ InitSizer /\ InitPortfolio
    /\ InitRegistry /\ InitDiscovery /\ InitLive
    /\ engine_call = NoEngineCall
    /\ connectors \in {Venue, {"polymarket"}}

HedgeOpportunities ==
    { Opp("E1", Leg("polymarket", "pm-yes", "BUY", 40),
                Leg("kalshi", "k-no", "BUY", 50), 1000, 100) }

HedgeOutcomes ==
    {[kind |-> "fill", fee_paid |-> 0], [kind |-> "none", fee_paid |-> 0],
     [kind |-> "raise", fee_paid |-> 0]}

\* Quantities of the fill the caller passes: the whole size and a part.
HedgeQtys == {10, 4}

\* Bound: execute_opportunity calls next to which hedges are modelled.
MaxHedgeTrades == 1

NextHedge ==
    \/ \E opp \in HedgeOpportunities, size \in ExecSizes :
            Len(trades) < MaxHedgeTrades /\ ExecuteOpportunity(opp, size)
    \/ \E outcome \in HedgeOutcomes : PlaceOrder(outcome)
    \/ \E tid \in 1..MaxHedgeTrades, v \in Venue, q \in HedgeQtys,
          outcome \in HedgeOutcomes :
            HedgePartialFill(tid, PartialFill(v, q), outcome)
    \/ \E tid \in 1..MaxHedgeTrades : CancelTrade(tid)

SpecHedge == InitHedgeSpec /\ [][NextHedge]_vars

\* The discovery engine called with and without refresh against two
\* venues whose calls may fail.  Each venue lists the YES and NO contract
\* of the 2028 Trump market and one market no mapper recognises; Kalshi
\* names its contracts either "kalshi_..." or, as its connector does,
\* "<market id>_<side>".  The Polymarket market closes in half an hour,
\* the Kalshi one the next day.
MarketPm2 == <<"p", "m", "2">>

PolymarketContracts ==
    <<Contract("polymarket", ContractId("polymarket", "pm1_YES"), MarketPm1, "YES",
               TitleTrump2028US, 1800),
      Contract("polymarket", ContractId("polymarket", "pm1_NO"), MarketPm1, "NO",
               TitleTrump2028US, 1800),
      Contract("polymarket", ContractId("polymarket", "pm2_YES"), MarketPm2, "YES",
               TitleRain, 86400)>>

KalshiContracts ==
    <<Contract("kalshi", ContractId("kalshi", "PRES-2028-TRUMP_YES"), TickerTrump2028,
               "YES", TitleTrump2028, 86400),
      Contract("kalshi", ContractId("kalshi", "PRES-2028-TRUMP_NO"), TickerTrump2028,
               "NO", TitleTrump2028, 86400),
      Contract("kalshi", ContractId("kalshi", "KXRAIN_YES"), MarketKxRain, "YES",
               TitleRain, 86400)>>

KalshiConnectorContracts ==
    <<Contract("kalshi", ContractId("PRES-2028-TRUMP", "YES"), TickerTrump2028,
               "YES", TitleTrump2028, 86400),
      Contract("kalshi", ContractId("PRES-2028-TRUMP", "NO"), TickerTrump2028,
               "NO", TitleTrump2028, 86400)>>

\* What list_contracts and get_quotes may do: raise, or return.
Raised == [kind |-> "raise", contracts |-> <<>>, ask |-> 0, size |-> 0]

Listed(contracts) == [kind |-> "contracts", contracts |-> contracts, ask |-> 0, size |-> 0]

Quoted(ask, size) == [kind |-> "quotes", contracts |-> <<>>, ask |-> ask, size |-> size]

ListOutcomes ==
    [polymarket |-> {Raised, Listed(PolymarketContracts)},
     kalshi |-> {Raised, Listed(KalshiContracts), Listed(KalshiConnectorContracts)}]

\* Asks of 10 and 20 cents.  Polymarket's book holds 150 or 100 contracts
\* on each side, Kalshi's 150 or 50: enough for the full notional, enough
\* for the liquidity test only, and too few for it.
QuoteOutcomes ==
    [polymarket |-> {Raised, Quoted(10, 150), Quoted(10, 100)},
     kalshi |-> {Raised, Quoted(20, 150), Quoted(20, 50)}]

\* The orders in which the two gathered fetches can complete.
CompletionOrders == {<<"polymarket", "kalshi">>, <<"kalshi", "polymarket">>}

\* The order matters to the caches only when both fetches store.
OrdersOf(lp, lk) ==
    IF lp = Raised \/ lk = Raised
    THEN {<<"polymarket", "kalshi">>}
    ELSE CompletionOrders

NextDiscovery ==
    \/ \E lp \in ListOutcomes.polymarket, lk \in ListOutcomes.kalshi,
          qp \in QuoteOutcomes.polymarket, qk \in QuoteOutcomes.kalshi :
            \E order \in OrdersOf(lp, lk) :
                DiscoverOpportunities(TRUE, order, [polymarket |-> lp, kalshi |-> lk],
                                      [polymarket |-> qp, kalshi |-> qk])
    \/ \E qp \in QuoteOutcomes.polymarket, qk \in QuoteOutcomes.kalshi :
            /\ contracts_cache # <<>>
            /\ DiscoverOpportunities(FALSE, <<>>, <<>>,
                                     [polymarket |-> qp, kalshi |-> qk])

SpecDiscovery == Init /\ [][NextDiscovery]_vars

\* The live script and engine under every combination of trading mode
\* and confirmation flag, against two venues whose calls may fail.  Each
\* venue lists one contract of the 2028 Trump market, closing the next
\* day, and quotes it at 10 or 20 cents with 150 contracts on each side.
InitLiveSpec ==
    /\ InitExec /\ InitRisk /\ InitSizer /\ InitPortfolio
    /\ InitHedge /\ InitRegistry /\ InitDiscovery
    /\ settings \in { Settings(m, c) : m \in TradingMode, c \in BOOLEAN }
    /\ live = NotStarted
    /\ venue_io = {}

LiveListOutcomes ==
    [polymarket |->
        {Raised,
         Listed(<<Contract("polymarket", ContractId("polymarket", "pm1_YES"),
                           MarketPm1, "YES", TitleTrump2028US, 86400)>>)},
     kalshi |->
        {Raised,
         Listed(<<Contract("kalshi", ContractId("kalshi", "PRES-2028-TRUMP_YES"),
                           TickerTrump2028, "YES", TitleTrump2028, 86400)>>)}]

LiveQuoteOutcomes ==
    [polymarket |-> {Raised, Quoted(10, 150)}, kalshi |-> {Raised, Quoted(20, 150)}]

Answers == {"CONFIRM", "no"}

NextLive ==
    \/ MainCheck
    \/ \E answer \in Answers : MainConfirm(answer)
    \/ \E failing \in Venue \cup {"none"} : InitializeConnectors(failing)
    \/ LiveTradingEngineInit
    \/ Start
    \/ \E failing \in SUBSET Venue : VerifyBalances(failing)
    \/ Stop
    \/ LoopTest
    \/ \E failing \in SUBSET Venue : UpdateBalances(failing)
    \/ \E lp \in LiveListOutcomes.polymarket, lk \in LiveListOutcomes.kalshi,
          qp \in LiveQuoteOutcomes.polymarket, qk \in LiveQuoteOutcomes.kalshi :
            \E order \in OrdersOf(lp, lk) :
                LiveDiscover(order, [polymarket |-> lp, kalshi |-> lk],
                             [polymarket |-> qp, kalshi |-> qk])
    \/ LoopExcept
    \/ \E fault \in BOOLEAN, size \in ExecSizes, e \in LiveExecutions :
            ProcessOpportunity(fault, size, e)
    \/ \E outcomes \in [Venue -> PortfolioOutcomes] : UpdatePortfolio(outcomes)
    \/ PrintStatus

SpecLive == InitLiveSpec /\ [][NextLive]_vars

\* The two driver loops from their first loop test on: the live engine
\* after main and start went through (both venues connected and their
\* balances verified), or the paper engine after its start.  Both venues
\* list one contract of the same event; a venue's get_quotes may raise.
StartedCalls ==
    { VenueCall(v, "connect") : v \in Venue }
        \cup { VenueCall(v, "get_balance") : v \in Venue }

InLiveLoop ==
    [NotStarted EXCEPT !.script = "started", !.engine = "constructed",
                       !.is_running = TRUE, !.pc = "loop",
                       !.last = StepRecord("verify_balances",
                                           { VenueCall(v, "get_balance") : v \in Venue },
                                           {})]

InPaperLoop ==
    [NotStarted EXCEPT !.script = "started", !.engine = "paper",
                       !.is_running = TRUE, !.pc = "paper_loop"]

InitLoop ==
    /\ InitExec /\ InitRisk /\ InitSizer /\ InitPortfolio
    /\ InitRegistry /\ InitDiscovery
    /\ engine_call = NoEngineCall
    /\ connectors = Venue
    /\ \/ /\ settings = Settings("live", TRUE)
          /\ live = InLiveLoop
          /\ venue_io = StartedCalls
       \/ /\ settings = Settings("paper", FALSE)
          /\ live = InPaperLoop
          /\ venue_io = { VenueCall(v, "connect") : v \in Venue }

LoopLists ==
    [v \in Venue |-> CHOOSE l \in LiveListOutcomes[v] : l.kind = "contracts"]

LoopQuotes ==
    { [polymarket |-> Quoted(10, 150), kalshi |-> qk] :
        qk \in LiveQuoteOutcomes.kalshi }

LoopExecutions == { Execution(TRUE, NoList), Execution(FALSE, FillList(Fill(0), Fill(0))) }

LoopPortfolioOutcomes ==
    { [v \in Venue |-> "quotes"],
      [v \in Venue |-> IF v = "kalshi" THEN "quotes_raise" ELSE "quotes"] }

NextLoop ==
    \/ Stop
    \/ LoopTestWithin(MaxLoopTicks)
    \/ \E failing \in {{}, {"kalshi"}} : UpdateBalances(failing)
    \/ \E qo \in LoopQuotes :
            LiveDiscover(<<"polymarket", "kalshi">>, LoopLists, qo)
    \/ LoopExcept
    \/ \E fault \in BOOLEAN, size \in ExecSizes, e \in LoopExecutions :
            ProcessOpportunity(fault, size, e)
    \/ \E outcomes \in LoopPortfolioOutcomes : UpdatePortfolio(outcomes)
    \/ PrintStatus
    \/ PaperStop
    \/ PaperLoopTest
    \/ \E qo \in LoopQuotes :
            PaperDiscover(<<"polymarket", "kalshi">>, LoopLists, qo)
    \/ PaperExcept
    \/ \E fault \in BOOLEAN, size \in ExecSizes : PaperProcessOpportunity(fault, size)
    \/ PaperPrintStatus

SpecLoop == InitLoop /\ [][NextLoop]_vars




----------------------------------------------------------------------------
(* Claims about the execution engine                                      *)

\* The trade of the latest execute_opportunity call; `orders` is its log.
Latest == Len(trades)

\* The place_order calls of the latest call made for leg l.
OrdersFor(l) == SelectSeq(orders, LAMBDA o : o.leg = l)

LegFilled(l) == \E i \in 1..Len(orders) : orders[i].leg = l /\ orders[i].kind = "fill"

\* The leg placed first obtained no fill in max_retries attempts.
FirstLegExhausted ==
    /\ Len(orders) > 0
    /\ Len(OrdersFor(orders[1].leg)) = max_retries
    /\ ~LegFilled(orders[1].leg)

\* C1: a Trade is `filled`, and returned to the caller, only when both
\* legs' place_order produced a fill.
C1_FilledOnlyWhenBothLegsFill ==
    (Latest > 0 /\ (trades[Latest].status = "filled" \/ returned[Latest] = "Trade"))
        => (LegFilled("a") /\ LegFilled("b"))

\* C2: every `filled` Trade has pnl = qty * edge_bps / 10000 - (fee_a + fee_b),
\* the fees being those of the two legs' fills (pips on both sides).
C2_FilledPnlFormula ==
    \A t \in 1..Len(trades) :
        trades[t].status = "filled"
            => trades[t].pnl = trades[t].qty * trades[t].edge_bps
                                 - (fills[t].a.fee_paid + fills[t].b.fee_paid)

\* C3: when the leg placed first gets no fill in max_retries attempts, the
\* Trade is `failed`, the call returns None, and place_order is never
\* called for the other leg.
C3_FirstLegFailureStopsTrade ==
    FirstLegExhausted
        => /\ trades[Latest].status = "failed"
           /\ returned[Latest] = "None"
           /\ \A i \in 1..Len(orders) : orders[i].leg = orders[1].leg

C3_Witness ==
    /\ FirstLegExhausted
    /\ orders[max_retries].kind = "none"
    /\ trades[Latest].status = "failed"
    /\ returned[Latest] = "None"
    /\ Latest \notin active
    /\ Latest > 1

----------------------------------------------------------------------------
(* Claims about the circuit breakers                                      *)

\* The latest check found venue v latched, with at most 5 minutes passed
\* since the latch.
LatchedWithinWindow(v) ==
    /\ last_risk.breakers[v]
    /\ v \in DOMAIN last_risk.latched_at
    /\ now <= last_risk.latched_at[v] + 5

Touches(opp, v) == opp.leg_a.venue = v \/ opp.leg_b.venue = v

\* C4: while a venue's breaker is latched, not reset, and no more than
\* 5 minutes old, check_trade_risk refuses every opportunity with a leg
\* on that venue.
C4_LatchedVenueBlocks ==
    \A v \in Venue :
        (last_risk.op = "check_trade_risk" /\ Touches(last_risk.opp, v)
            /\ LatchedWithinWindow(v))
        => (~last_risk.allowed /\ last_risk.reason.msg = "Circuit breaker active for")

\* A latch exactly 5 minutes old, on the venue of leg_b only, blocks.
C4_Witness ==
    \E v \in Venue :
        /\ last_risk.op = "check_trade_risk"
        /\ last_risk.opp.leg_b.venue = v
        /\ last_risk.opp.leg_a.venue # v
        /\ ~last_risk.breakers[last_risk.opp.leg_a.venue]
        /\ LatchedWithinWindow(v)
        /\ now = last_risk.latched_at[v] + 5
        /\ circuit_breakers[v]
        /\ ~last_risk.allowed

\* The samples of the last 5 minutes, counted straight from the windows.
RecentErrorCount(errs, t) ==
    Cardinality({i \in 1..Len(errs) : errs[i] > t - WindowMinutes})

RecentLatencyIdx(lats, t) ==
    {i \in 1..Len(lats) : lats[i].timestamp > t - WindowMinutes}

RECURSIVE LatencyTotal(_, _)
LatencyTotal(lats, idx) ==
    IF idx = {}
    THEN 0
    ELSE LET i == CHOOSE x \in idx : TRUE
         IN lats[i].latency_ms + LatencyTotal(lats, idx \ {i})

\* The claim's trigger condition on windows errs, lats at time t.
ShouldLatch(errs, lats, t) ==
    \/ /\ RecentErrorCount(errs, t) >= 10
       /\ RecentErrorCount(errs, t) * 100 > circuit_breaker_error_rate * 100
    \/ /\ RecentLatencyIdx(lats, t) # {}
       /\ LatencyTotal(lats, RecentLatencyIdx(lats, t))
            > circuit_breaker_latency_ms * Cardinality(RecentLatencyIdx(lats, t))

BreakerState(v) ==
    <<circuit_breakers[v],
      IF v \in DOMAIN circuit_breaker_timestamps
      THEN <<circuit_breaker_timestamps[v]>> ELSE <<>> >>

\* C5: record_error and record_latency latch the venue's breaker exactly
\* when, over its samples of the last 5 minutes, at least 10 errors are
\* present and errors/100 exceeds the configured rate, or the mean latency
\* exceeds the configured latency; otherwise the breaker state is left as
\* it was.
C5_LatchExactlyOnTrigger ==
    [][\A v \in Venue :
          (error_counts'[v] # error_counts[v]
             \/ latency_measurements'[v] # latency_measurements[v])
          => IF ShouldLatch(error_counts'[v], latency_measurements'[v], now)
             THEN BreakerState(v)' = <<TRUE, <<now>> >>
             ELSE BreakerState(v)' = BreakerState(v)]_vars

\* An error latches a venue on the count alone: ten recent errors at a
\* configured rate of 5%, with no latency sample.
C5_Witness ==
    \E v \in Venue :
        /\ circuit_breaker_error_rate = 5
        /\ RecentErrorCount(error_counts[v], now) = 10
        /\ latency_measurements[v] = <<>>
        /\ circuit_breakers[v]
        /\ circuit_breaker_timestamps[v] = now

----------------------------------------------------------------------------
(* Claims about the pre-trade check                                       *)

\* The verdict the fixed gate order gives for opp and pos in this state.
FirstFailingGate(opp, pos) ==
    IF LatchedWithinWindow(opp.leg_a.venue)
    THEN Reason("Circuit breaker active for", opp.leg_a.venue, 0)
    ELSE IF LatchedWithinWindow(opp.leg_b.venue)
    THEN Reason("Circuit breaker active for", opp.leg_b.venue, 0)
    ELSE IF check_drawdown(pnl_history)
    THEN Reason("Maximum drawdown exceeded", "", 0)
    ELSE IF Exposure(pos, opp.event_id) + opp.notional > 5000
    THEN Reason("Position limit exceeded for event", opp.event_id, 0)
    ELSE IF TotalExposure(pos) + opp.notional > 3000
    THEN Reason("Total risk limit exceeded", "", 0)
    ELSE IF opp.edge_bps < 80
    THEN Reason("Edge too small", "", opp.edge_bps)
    ELSE Reason("Risk check passed", "", 0)

\* C6: check_trade_risk evaluates breaker(leg_a venue), breaker(leg_b
\* venue), drawdown, per-event cap, aggregate cap, min edge in that order,
\* returns false with the reason of the first gate that fails, and returns
\* true only when none fails.
C6_GateOrder ==
    last_risk.op = "check_trade_risk"
        => /\ last_risk.reason = FirstFailingGate(last_risk.opp, last_risk.positions)
           /\ last_risk.allowed = (last_risk.reason.msg = "Risk check passed")

\* Exposure 4800 + notional 400 against the cap of 5000: refused for the
\* per-event cap although the aggregate cap fails too.
C6_Witness ==
    /\ last_risk.op = "check_trade_risk"
    /\ Exposure(last_risk.positions, last_risk.opp.event_id) = 4800
    /\ last_risk.opp.notional = 400
    /\ TotalExposure(last_risk.positions) + last_risk.opp.notional > 3000
    /\ ~last_risk.allowed
    /\ last_risk.reason.msg = "Position limit exceeded for event"

\* The cumulative PnL after each of the first i recorded trades.
PrefixSum(q, i) == SumSeq(SubSeq(q, 1, i))

SetMax(S) == CHOOSE x \in S : \A y \in S : y <= x

\* The running peak of the cumulative PnL sequence after i trades (the
\* sequence starts from 0).
PeakAt(q, i) == SetMax({0} \cup {PrefixSum(q, j) : j \in 1..i})

\* The non-zero PnLs record_trade retains: the last PnlCapacity of them.
Retained ==
    LET nz == SelectSeq(trades_history, LAMBDA x : x # 0)
    IN IF Len(nz) > PnlCapacity
       THEN SubSeq(nz, Len(nz) - PnlCapacity + 1, Len(nz))
       ELSE nz

\* C7 as stated: the gate is breached exactly when the running peak of
\* the cumulative PnL is > 0 and (peak - current cumulative PnL) / peak
\* * 100 > max_drawdown_pct; a recovered drawdown does not breach it.
C7_CurrentDrawdownGate ==
    LET n == Len(trades_history)
        peak == PeakAt(trades_history, n)
        current == PrefixSum(trades_history, n)
    IN check_drawdown(pnl_history)
         <=> (peak > 0 /\ (peak - current) * 100 > 10 * peak)

\* C7 amended: the gate is breached exactly when the final running peak
\* is > 0 and the largest gap between the running peak and the cumulative
\* PnL reached at any point of the retained history, divided by the final
\* peak, * 100 > max_drawdown_pct; a recovered drawdown keeps counting.
C7_MaxDrawdownGate ==
    LET n == Len(Retained)
        peak == PeakAt(Retained, n)
        gap == SetMax({0} \cup {PeakAt(Retained, i) - PrefixSum(Retained, i) : i \in 1..n})
    IN /\ pnl_history = Retained
       /\ check_drawdown(pnl_history) <=> (peak > 0 /\ gap * 100 > 10 * peak)

\* A drawdown that has been recovered (the cumulative PnL is back at its
\* peak) still breaches the gate, and the check refuses for it.
C7_Witness ==
    /\ Len(trades_history) >= 3
    /\ PrefixSum(trades_history, Len(trades_history))
         = PeakAt(trades_history, Len(trades_history))
    /\ check_drawdown(pnl_history)
    /\ last_risk.op = "check_trade_risk"
    /\ last_risk.reason.msg = "Maximum drawdown exceeded"

----------------------------------------------------------------------------
(* Claims about the position sizer                                        *)

\* The notional in USD of size s of opportunity opp, as a rational.
NotionalOf(s, opp) == RTimes(s, opp.notional)

\* C8: the size left by the risk-limit stage satisfies the per-trade, the
\* per-event and the aggregate cap at once.
C8_RiskLimitedWithinAllCaps ==
    last_size.op \in {"apply_risk_limits", "calculate_position_size"}
        => LET n == NotionalOf(last_size.risk_limited, last_size.opp)
               pos == last_size.positions
           IN /\ RLeq(n, RInt(1000))
              /\ RLeq(RPlusInt(n, Exposure(pos, last_size.opp.event_id)), RInt(5000))
              /\ RLeq(RPlusInt(n, TotalExposure(pos)), RInt(3000))

NonPositive(s) == s[1] <= 0

\* C9: calculate_position_size returns 0 whenever the Kelly, risk-limited
\* or balance-limited size is non-positive.
C9_NonPositiveGivesZero ==
    (last_size.op = "calculate_position_size"
        /\ (NonPositive(last_size.kelly) \/ NonPositive(last_size.risk_limited)
              \/ NonPositive(last_size.balance_limited)))
        => last_size.final = 0

----------------------------------------------------------------------------
(* Claims about the portfolio                                             *)

RECURSIVE PnlTotal(_, _)
PnlTotal(l, idx) ==
    IF idx = {}
    THEN 0
    ELSE LET i == CHOOSE x \in idx : TRUE
         IN l[i].pnl + PnlTotal(l, idx \ {i})

\* C10: current_balance = initial_balance + the sum of pnl over the trades
\* in the ledger, which is initial_balance + the summary's realized_pnl.
C10_BalanceMatchesLedger ==
    /\ current_balance = 10000 * PipsPerUsd + PnlTotal(ledger, 1..Len(ledger))
    /\ current_balance = initial_balance * PipsPerUsd + realized_pnl(ledger)

C10_Witness ==
    /\ Len(ledger) = 2
    /\ ledger[1].pnl > 0
    /\ ledger[2].pnl < 0
    /\ current_balance = 10000 * PipsPerUsd + ledger[1].pnl + ledger[2].pnl

----------------------------------------------------------------------------
(* Claims about the event registry and the venue mappers                  *)

\* C14: every stored mapping's event_id names an event of the registry
\* (add_mapping with an unknown event_id stores nothing).
C14_MappingsNameEvents ==
    \A k \in DOMAIN mappings : mappings[k].event_id \in events

\* The call just made and the one before it were mapper calls for the
\* same (venue, market_id), and the first returned an event id.
MappedTwice ==
    /\ last_map.op = "map"
    /\ last_map.prev.op = "map"
    /\ last_map.prev.venue = last_map.venue
    /\ last_map.prev.market_id = last_map.market_id
    /\ last_map.prev.result # NoneId

TrumpTitleMappings ==
    { k \in DOMAIN mappings :
        /\ k[1] = "polymarket"
        /\ mappings[k].mapping_method = "deterministic"
        /\ mappings[k].title_raw = TitleTrump2028 }

\* The Kalshi mapper has mapped the ticker PRES-2028-TRUMP.
TrumpTickerMapped ==
    /\ MappingKey("kalshi", TickerTrump2028) \in DOMAIN mappings
    /\ mappings[MappingKey("kalshi", TickerTrump2028)].mapping_method = "deterministic"

\* C16: once the Polymarket mapper has mapped that title and the Kalshi
\* mapper that ticker, and these are the registry's two mappings, both
\* name ELECTION:US:PRESIDENT:2028:TRUMP and the coverage statistics
\* report one cross-venue event and two mappings.
C16_SameEventOnBothVenues ==
    (TrumpTitleMappings # {} /\ TrumpTickerMapped
        /\ Cardinality(DOMAIN mappings) = 2)
        => /\ \A k \in TrumpTitleMappings : mappings[k].event_id = EventUsTrump2028
           /\ mappings[MappingKey("kalshi", TickerTrump2028)].event_id = EventUsTrump2028
           /\ get_coverage_stats(RegistryState).events_with_cross_venue = 1
           /\ get_coverage_stats(RegistryState).total_mappings = 2

----------------------------------------------------------------------------
(* Claims about hedging and cancelling                                    *)

TerminalStatuses == {"filled", "failed", "hedged", "cancelled"}

\* C18: once a trade's status is filled, failed, hedged or cancelled, no
\* step of the engine changes it.
C18_TerminalStatusesStay ==
    [][\A tid \in 1..Len(trades) :
          trades[tid].status \in TerminalStatuses
              => trades'[tid].status = trades[tid].status]_vars

\* The venue of the hedged trade that is not the one that filled, and
\* the side opposite to the trade's leg on that venue.
HedgedTrade == trades[engine_call.tid]

OppositeVenue ==
    CHOOSE v \in {HedgedTrade.venue_a, HedgedTrade.venue_b} : v # engine_call.fill.venue

OppositeSide ==
    LET side == IF OppositeVenue = HedgedTrade.venue_a
                THEN HedgedTrade.side_a ELSE HedgedTrade.side_b
    IN CHOOSE s \in OrderSide : s # side

\* C19: hedge_partial_fill places one IOC order of the fill's quantity,
\* opposite side, on the venue that did not fill; the trade is hedged
\* with extra.hedge_fill set and returned when that order fills; when it
\* does not fill, or the venue has no connector (no order at all), the
\* trade keeps its status and None is returned.
C19_HedgeOrderAndOutcome ==
    engine_call.op = "hedge"
        => IF OppositeVenue \in connectors
           THEN /\ Len(engine_call.placed) = 1
                /\ engine_call.placed[1].tif = "IOC"
                /\ engine_call.placed[1].qty = engine_call.fill.qty
                /\ engine_call.placed[1].venue = OppositeVenue
                /\ engine_call.placed[1].side = OppositeSide
                /\ engine_call.outcome = "fill"
                      => /\ engine_call.status_after = "hedged"
                         /\ engine_call.extra_after = "hedge_fill"
                         /\ engine_call.returned = "Trade"
                /\ engine_call.outcome # "fill"
                      => /\ engine_call.status_after = engine_call.status_before
                         /\ engine_call.extra_after = engine_call.extra_before
                /\ engine_call.outcome = "none" => engine_call.returned = "None"
           ELSE /\ engine_call.placed = <<>>
                /\ engine_call.status_after = engine_call.status_before
                /\ engine_call.extra_after = engine_call.extra_before
                /\ engine_call.returned = "None"

\* A part of the size filled on Polymarket and the hedge on Kalshi filled.
C19_Witness ==
    /\ engine_call.op = "hedge"
    /\ engine_call.fill = PartialFill("polymarket", 4)
    /\ Len(engine_call.placed) = 1
    /\ engine_call.placed[1].venue = "kalshi"
    /\ engine_call.placed[1].side = "SELL"
    /\ engine_call.outcome = "fill"
    /\ engine_call.status_after = "hedged"

----------------------------------------------------------------------------
(* Claims about the discovery engine                                      *)

\* The thresholds of the engine, on one opportunity.
MeetsMinimums(opp) ==
    /\ RLeq(RInt(min_edge_bps), opp.edge_bps)
    /\ RLeq(RInt(min_notional_usd * MicrosPerUsd), opp.notional)

\* C11: every opportunity discover_opportunities constructs, and so every
\* one it returns, has edge_bps >= min_edge_bps and notional >=
\* min_notional_usd.
C11_OpportunitiesMeetMinimums ==
    last_discovery.op = "discover"
        => /\ \A i \in 1..Len(last_discovery.constructed) :
                MeetsMinimums(last_discovery.constructed[i])
           /\ \A i \in 1..Len(last_discovery.result) :
                /\ MeetsMinimums(last_discovery.result[i])
                /\ \E j \in 1..Len(last_discovery.constructed) :
                      last_discovery.constructed[j] = last_discovery.result[i]

\* Both books hold 150 contracts and an opportunity is returned.
C11_Witness ==
    /\ last_discovery.op = "discover"
    /\ last_discovery.quoted = Venue
    /\ last_discovery.quote_outcomes["polymarket"] = Quoted(10, 150)
    /\ last_discovery.quote_outcomes["kalshi"] = Quoted(20, 150)
    /\ last_discovery.result # <<>>

\* The matched pairs from which an opportunity's legs were taken.
PairsOfLegs(opp) ==
    { i \in 1..Len(last_discovery.pairs) :
        /\ last_discovery.pairs[i].contract_a.contract_id = opp.leg_a.contract_id
        /\ last_discovery.pairs[i].contract_b.contract_id = opp.leg_b.contract_id }

\* C12: every opportunity returned has its legs on different venues, on
\* contracts of the opportunity's event, one a YES contract and the other
\* a NO contract.
C12_LegsAreYesAndNo ==
    \A k \in 1..Len(last_discovery.result) :
        LET opp == last_discovery.result[k]
        IN /\ opp.leg_a.venue # opp.leg_b.venue
           /\ PairsOfLegs(opp) # {}
           /\ \A i \in PairsOfLegs(opp) :
                LET pair == last_discovery.pairs[i]
                IN /\ pair.contract_a.normalized_event_id = opp.event_id
                   /\ pair.contract_b.normalized_event_id = opp.event_id
                   /\ {pair.contract_a.side, pair.contract_b.side} = {"YES", "NO"}

\* A venue's entry of a contracts cache: its contracts, or nothing.
CacheEntry(cache, venue) ==
    IF HasKey(cache, venue)
    THEN <<cache[CHOOSE i \in 1..Len(cache) : cache[i].venue = venue].contracts>>
    ELSE <<>>

\* The quotes a cache holds under the ids that start with the venue's name.
QuoteEntries(qc, venue) ==
    { <<cid, qc[cid]>> : cid \in { c \in DOMAIN qc : starts_with_venue(c, venue) } }

\* The contracts of a response whose market the registry maps, each with
\* the event id of its mapping.
StoredFrom(venue, contracts) ==
    LET kept == SelectSeq(contracts, LAMBDA c :
                    MappingKey(venue, c.normalized_event_id) \in DOMAIN mappings)
    IN [i \in 1..Len(kept) |->
            [kept[i] EXCEPT !.normalized_event_id =
                mappings[MappingKey(venue, kept[i].normalized_event_id)].event_id]]

\* C13: in a discover_opportunities call, a venue whose list_contracts
\* raised keeps its contracts cache entry and a venue whose get_quotes
\* raised keeps its quote entries, while a venue whose call returned has
\* its entry replaced by the mapped contracts of its response and each
\* quote of its response stored; the call returns its list either way.
C13_FailedVenueKeepsItsCache ==
    last_discovery.op = "discover"
        => /\ \A v \in last_discovery.listed :
                IF last_discovery.list_outcomes[v].kind = "raise"
                THEN CacheEntry(contracts_cache, v)
                        = CacheEntry(last_discovery.before.contracts_cache, v)
                ELSE CacheEntry(contracts_cache, v)
                        = <<StoredFrom(v, last_discovery.list_outcomes[v].contracts)>>
           /\ \A v \in last_discovery.quoted :
                IF last_discovery.quote_outcomes[v].kind = "raise"
                THEN QuoteEntries(quotes_cache, v)
                        = QuoteEntries(last_discovery.before.quotes_cache, v)
                ELSE \A cid \in venue_contracts(last_discovery.pairs, v) :
                        /\ cid \in DOMAIN quotes_cache
                        /\ quotes_cache[cid]
                              = Quote(v, cid, last_discovery.quote_outcomes[v].ask,
                                      last_discovery.quote_outcomes[v].size,
                                      last_discovery.quote_outcomes[v].size)
           /\ \A v \in Venue \ last_discovery.listed :
                CacheEntry(contracts_cache, v)
                    = CacheEntry(last_discovery.before.contracts_cache, v)
           /\ \A v \in Venue \ last_discovery.quoted :
                QuoteEntries(quotes_cache, v)
                    = QuoteEntries(last_discovery.before.quotes_cache, v)

\* A refresh in which Polymarket's list_contracts and get_quotes both
\* raised while it had contracts and quotes cached, and Kalshi's calls
\* returned and changed Kalshi's quotes.
C13_Witness ==
    /\ last_discovery.op = "discover"
    /\ last_discovery.listed = Venue
    /\ last_discovery.quoted = Venue
    /\ last_discovery.list_outcomes["polymarket"] = Raised
    /\ last_discovery.list_outcomes["kalshi"] = Listed(KalshiContracts)
    /\ last_discovery.quote_outcomes["polymarket"] = Raised
    /\ last_discovery.quote_outcomes["kalshi"] = Quoted(20, 50)
    /\ CacheEntry(last_discovery.before.contracts_cache, "polymarket") # <<>>
    /\ CacheEntry(contracts_cache, "polymarket") # <<<<>>>>
    /\ QuoteEntries(last_discovery.before.quotes_cache, "polymarket") # {}
    /\ QuoteEntries(quotes_cache, "kalshi")
          # QuoteEntries(last_discovery.before.quotes_cache, "kalshi")

----------------------------------------------------------------------------
(* Claims about the live driver *)

\* The venue calls the claim names, and connect.
VenueIoDone == venue_io # {}

\* C17: the live driver performs no venue I/O unless mode = live and
\* confirm_live = true: with any other configuration no LiveTradingEngine
\* comes to exist, the script gets no further than its first test, and
\* no venue is connected to or asked anything.
C17_NoVenueIoUnlessLive ==
    (settings.mode = "live" /\ settings.confirm_live)
        \/ /\ ~VenueIoDone
           /\ live.engine # "constructed"
           /\ live.script \in {"check", "exit"}
           /\ live.pc = "none"
           /\ ~live.is_running

\* With mode = live but no confirmation, the constructor has refused and
\* the script has exited, and no venue was touched.
C17_Witness ==
    /\ settings.mode = "live"
    /\ ~settings.confirm_live
    /\ live.engine = "refused"
    /\ live.script = "exit"
    /\ ~VenueIoDone

\* The venues whose list_contracts or get_quotes raised in the latest step.
RaisedFetches ==
    { c[1] : c \in { x \in live.last.raised : x[2] \in {"list_contracts", "get_quotes"} } }

\* C20: when a venue's list_contracts or get_quotes raises during a tick,
\* an error is recorded for that venue: its error window is longer after
\* the step than it was before.
C20_RaisingVenueGetsError ==
    \A v \in RaisedFetches :
        Len(error_counts[v]) > Len(live.last.errors_before[v])

----------------------------------------------------------------------------
(* Claims about the retry loop, the leg order and the end of a call       *)

\* The call in flight is between two place_order calls of leg l, about to
\* make attempt number k.
AboutToPlace(l, k) == call.pc = "placing" /\ call.leg = l /\ call.attempt = k

\* C23: for each leg, place_order is called at most max_retries times, the
\* attempts are numbered 0, 1, 2 in order, nothing follows a fill, an
\* attempt before the last that returns no fill or raises is followed by
\* the next attempt, and a leg whose max_retries attempts all returned no
\* fill is reported as not filled.
C23_RetryLoop ==
    \A l \in {"a", "b"} :
        LET mine == OrdersFor(l)
        IN /\ Len(mine) <= max_retries
           /\ \A i \in 1..Len(mine) :
                 /\ mine[i].attempt = i - 1
                 /\ mine[i].kind = "fill" => i = Len(mine) /\ ~AboutToPlace(l, i)
                 /\ (mine[i].kind # "fill" /\ i < max_retries)
                       => (i < Len(mine) \/ AboutToPlace(l, i))
           /\ (Len(mine) = max_retries /\ \A i \in 1..Len(mine) : mine[i].kind = "none")
                 => /\ call.pc = "idle"
                    /\ IF l = "a" THEN ~fills[Latest].a.filled ELSE ~fills[Latest].b.filled

\* A leg filled on its second attempt after the first raised, and the
\* other leg got no fill in max_retries attempts.
C23_Witness ==
    /\ Len(OrdersFor("b")) = 2
    /\ OrdersFor("b")[1].kind = "raise"
    /\ OrdersFor("b")[2].kind = "fill"
    /\ Len(OrdersFor("a")) = max_retries
    /\ \A i \in 1..max_retries : OrdersFor("a")[i].kind = "none"
    /\ call.pc = "idle"

\* The leg of the latest trade with the strictly smaller liquidity
\* estimate, leg B when neither is smaller.
LessLiquidLeg ==
    IF estimate_liquidity(RequestOf(trades[Latest], "a"))
          < estimate_liquidity(RequestOf(trades[Latest], "b"))
    THEN "a" ELSE "b"

\* C24: the first place_order of a trade is for the leg with the strictly
\* smaller liquidity estimate (leg B when neither is smaller), and every
\* place_order for the other leg comes after a fill of that first leg.
C24_LessLiquidLegFirst ==
    /\ call.pc = "placing" => call.first = LessLiquidLeg
    /\ \A i \in 1..Len(orders) :
          \/ orders[i].leg = LessLiquidLeg
          \/ \E j \in 1..(i - 1) :
                orders[j].leg = LessLiquidLeg /\ orders[j].kind = "fill"

\* Both legs were placed: the first leg after a retry, then the other.
C24_Witness ==
    /\ Len(orders) = 3
    /\ orders[1].leg = LessLiquidLeg /\ orders[1].kind = "none"
    /\ orders[2].leg = LessLiquidLeg /\ orders[2].kind = "fill"
    /\ orders[3].leg = OtherLeg(LessLiquidLeg)

TimesInHistory(tid) == Cardinality({ i \in 1..Len(history) : history[i] = tid })

\* What holds of every trade but the one of the call in flight: it is not
\* active, it is in the history once, and its status is terminal.
Settled(tid) ==
    /\ tid \notin active
    /\ TimesInHistory(tid) = 1
    /\ trades[tid].status \in {"filled", "failed"}
    /\ returned[tid] \in {"Trade", "None"}

\* C28: every execute_opportunity call ends, and when it has ended its
\* Trade is out of the active set, in the history exactly once, and
\* filled or failed; only the Trade of the call in flight is active and
\* pending.
C28_CallsEndSettled ==
    /\ [](\A tid \in 1..Len(trades) :
             IF call.pc = "placing" /\ call.tid = tid
             THEN tid \in active /\ TimesInHistory(tid) = 0
             ELSE Settled(tid))
    /\ (call.pc = "placing") ~> (call.pc = "idle")

\* A call ended by an exception of the last retry, and one ended because
\* the second leg's venue has no connector.
C28_Witness ==
    /\ call.pc = "idle"
    /\ Len(trades) >= 1
    /\ trades[Latest].status = "failed"
    /\ trades[Latest].extra = "error"
    /\ Settled(Latest)
    /\ \/ Len(orders) = max_retries /\ orders[max_retries].kind = "raise"
       \/ /\ Len(orders) = 1 /\ orders[1].kind = "fill"
          /\ RequestOf(trades[Latest], OtherLeg(orders[1].leg)).venue \notin connectors

----------------------------------------------------------------------------
(* Claims about the end of a latch                                        *)

\* The latest check found venue v latched more than 5 minutes ago.
LatchedPastWindow(v) ==
    /\ last_risk.breakers[v]
    /\ v \in DOMAIN last_risk.latched_at
    /\ now > last_risk.latched_at[v] + 5

\* The latest check asked venue v's breaker: v is the venue of leg_a, or
\* the venue of leg_b while leg_a's venue did not block.
Asked(v) ==
    \/ last_risk.opp.leg_a.venue = v
    \/ /\ last_risk.opp.leg_b.venue = v
       /\ ~LatchedWithinWindow(last_risk.opp.leg_a.venue)

\* The step is a check_trade_risk call that asks venue v's breaker more
\* than 5 minutes after its latch.
ExpiredCheckOf(v) ==
    /\ last_risk'.op = "check_trade_risk"
    /\ v \in DOMAIN circuit_breaker_timestamps
    /\ now > circuit_breaker_timestamps[v] + 5
    /\ \/ last_risk'.opp.leg_a.venue = v
       \/ /\ last_risk'.opp.leg_b.venue = v
          /\ \E w \in Venue :
               /\ last_risk'.opp.leg_a.venue = w
               /\ ~(circuit_breakers[w] /\ w \in DOMAIN circuit_breaker_timestamps
                      /\ now <= circuit_breaker_timestamps[w] + 5)

\* The step is a record_error or a record_latency call for venue v.
RecordsSampleOf(v) ==
    \/ error_counts'[v] # error_counts[v]
    \/ latency_measurements'[v] # latency_measurements[v]

\* The claim as written: a check_trade_risk touching a venue, made more
\* than 5 minutes after the venue's latch, leaves the venue cleared.
C25_FirstTouchingCheckClears ==
    \A v \in Venue :
        (last_risk.op = "check_trade_risk" /\ Touches(last_risk.opp, v)
            /\ LatchedPastWindow(v))
        => ~circuit_breakers[v]

\* C25: a latched breaker is cleared only by reset_circuit_breaker or by
\* a check_trade_risk that asks the venue's breaker more than 5 minutes
\* after the latch (the venue is leg_a's, or it is leg_b's and leg_a's
\* venue does not block); every such check clears it; a cleared venue is
\* latched again only by a record_error or record_latency for it, and
\* until then no check names it as blocking.
C25_LatchEnds ==
    /\ [][\A v \in Venue :
             /\ (circuit_breakers[v] /\ ~circuit_breakers'[v])
                  => (ResetCircuitBreaker(v) \/ ExpiredCheckOf(v))
             /\ (~circuit_breakers[v] /\ circuit_breakers'[v])
                  => RecordsSampleOf(v)]_vars
    /\ [](\A v \in Venue :
             /\ (last_risk.op = "check_trade_risk" /\ Asked(v)
                    /\ LatchedPastWindow(v))
                  => (/\ ~circuit_breakers[v]
                      /\ v \notin DOMAIN circuit_breaker_timestamps)
             /\ (last_risk.op = "check_trade_risk" /\ ~last_risk.breakers[v])
                  => ~(last_risk.reason.msg = "Circuit breaker active for"
                         /\ last_risk.reason.who = v))

\* A check made 6 minutes after the latch of leg_b's venue clears that
\* venue and lets the opportunity through.
C25_Witness ==
    \E v \in Venue :
        /\ last_risk.op = "check_trade_risk"
        /\ last_risk.opp.leg_b.venue = v
        /\ last_risk.opp.leg_a.venue # v
        /\ LatchedPastWindow(v)
        /\ ~circuit_breakers[v]
        /\ v \notin DOMAIN circuit_breaker_timestamps
        /\ last_risk.allowed

----------------------------------------------------------------------------
(* Claims about the positions of the portfolio                            *)

\* Quantity and average price held for (event, venue): nothing before the
\* first trade touches it.
Held(posns, e, v) ==
    IF e \in DOMAIN posns /\ v \in DOMAIN posns[e]
    THEN [qty |-> posns[e][v].qty, avg |-> posns[e][v].avg_price]
    ELSE [qty |-> 0, avg |-> <<0, 1>>]

\* What a leg of add_qty at add_price (cents) makes of a holding: a BUY
\* gives qty + add_qty at the weighted average; a SELL of at least the
\* held quantity gives qty = 0, avg = 0; a smaller SELL takes add_qty off
\* and keeps the average.
AfterLeg(old, order_side, add_qty, add_price) ==
    IF order_side = "BUY"
    THEN [qty |-> old.qty + add_qty,
          avg |-> Norm(<<old.qty * old.avg[1] + add_qty * add_price * old.avg[2],
                         (old.qty + add_qty) * old.avg[2]>>)]
    ELSE IF add_qty >= old.qty
         THEN [qty |-> 0, avg |-> <<0, 1>>]
         ELSE [qty |-> old.qty - add_qty, avg |-> old.avg]

\* C29: after any sequence of add_trade calls every Position has qty >= 0
\* and qty = 0 implies avg_price = 0; and each add_trade moves the two
\* positions of its legs as the claim says: a BUY leg to qty + add_qty at
\* avg = (qty*avg + add_qty*add_price)/(qty + add_qty), a SELL leg larger
\* than the holding to qty = 0, avg = 0.
C29_PositionsStayValid ==
    /\ [](\A e \in DOMAIN positions : \A v \in DOMAIN positions[e] :
             /\ positions[e][v].qty >= 0
             /\ (positions[e][v].qty = 0 => positions[e][v].avg_price = <<0, 1>>))
    /\ [][Len(ledger') = Len(ledger) + 1 =>
            LET t == ledger'[Len(ledger')]
            IN /\ Held(positions', t.event_id, t.venue_a)
                    = AfterLeg(Held(positions, t.event_id, t.venue_a),
                               t.side_a, t.qty, t.price_a)
               /\ Held(positions', t.event_id, t.venue_b)
                    = AfterLeg(Held(positions, t.event_id, t.venue_b),
                               t.side_b, t.qty, t.price_b)]_vars

\* A SELL leg of 12 against a holding of 10 leaves qty = 0 and avg = 0,
\* while the BUY leg of the same trade adds to the other venue's holding.
C29_Witness ==
    /\ Len(ledger) = 2
    /\ ledger[1].event_id = ledger[2].event_id
    /\ ledger[1].side_a = "BUY" /\ ledger[2].side_a = "SELL"
    /\ ledger[2].qty > ledger[1].qty
    /\ ledger[2].side_b = "BUY"
    /\ Held(positions, ledger[2].event_id, ledger[2].venue_a)
          = [qty |-> 0, avg |-> <<0, 1>>]
    /\ Held(positions, ledger[2].event_id, ledger[2].venue_b).qty
          = ledger[1].qty + ledger[2].qty

----------------------------------------------------------------------------
(* Claims about the edge, the order and the expiry of the opportunities   *)

\* (1 - (eff_a + eff_b)) * 10000 for the two legs of an opportunity, the
\* effective prices being the taker-fee-adjusted asks of the legs.
EdgeOfLegs(opp) ==
    Rat(MicrosPerUsd - (calculate_effective_price(opp.leg_a.venue, opp.leg_a.price)
                          + calculate_effective_price(opp.leg_b.venue, opp.leg_b.price)),
        100)

\* The direction of a pair's legs, read from the sides of its contracts.
LegDirection(pair) ==
    CASE pair.contract_a.side = "YES" /\ pair.contract_b.side = "NO" -> "YES@A+NO@B"
      [] pair.contract_a.side = "NO" /\ pair.contract_b.side = "YES" -> "NO@A+YES@B"
      [] pair.contract_a.side = "YES" /\ pair.contract_b.side = "YES" -> "YES@A+YES@B"
      [] OTHER -> "NO@A+NO@B"

\* C27: every opportunity returned by discovery has
\* edge_bps = (1 - (eff_a + eff_b)) * 10000 for the fee-adjusted asks of
\* its two legs, and a rationale that names the direction of those legs.
C27_EdgeOfPlacedLegs ==
    \A k \in 1..Len(last_discovery.result) :
        LET opp == last_discovery.result[k]
        IN /\ opp.edge_bps = EdgeOfLegs(opp)
           /\ \A i \in PairsOfLegs(opp) :
                opp.rationale = LegDirection(last_discovery.pairs[i])

\* The opportunities of a list are in order of non-increasing edge_bps.
ByFallingEdge(opps) ==
    \A i \in 1..Len(opps) : \A j \in i..Len(opps) :
        RLeq(opps[j].edge_bps, opps[i].edge_bps)

\* Neither contract of the pair expires within the hour after the call.
ExpiresLater(pair) ==
    /\ pair.contract_a.expires_in >= 3600
    /\ pair.contract_b.expires_in >= 3600

\* C26: the list one discover_opportunities call returns is ordered by
\* non-increasing edge_bps and holds no opportunity with a leg on a
\* contract that expires less than one hour after the call.
C26_OrderedAndNotExpiring ==
    /\ ByFallingEdge(last_discovery.result)
    /\ \A k \in 1..Len(last_discovery.result) :
          \A i \in PairsOfLegs(last_discovery.result[k]) :
              ExpiresLater(last_discovery.pairs[i])

\* What the venues answered in the latest call, a venue that was not
\* asked for quotes answering nothing.
QuoteAnswers ==
    [v \in Venue |-> IF v \in DOMAIN last_discovery.quote_outcomes
                     THEN last_discovery.quote_outcomes[v]
                     ELSE Raised]

\* The latest call made again from the same engine with the same venue
\* responses, the list_contracts calls completing in the given order.
Replayed(order) ==
    discover_opportunities(last_discovery.before, TRUE, order,
                           last_discovery.list_outcomes, QuoteAnswers)

\* C30: the outcome of a discovery call that lists both venues does not
\* depend on the order in which the two list_contracts calls complete:
\* every order gives the pairs and the opportunities that the call gave.
C30_CompletionOrderIrrelevant ==
    (last_discovery.op = "discover" /\ last_discovery.listed = Venue)
        => \A order \in CompletionOrders :
              /\ Replayed(order).pairs = last_discovery.pairs
              /\ Replayed(order).result = last_discovery.result

----------------------------------------------------------------------------
(* Claims about build_event_id                                            *)

\* The arguments of the latest build_event_id call, each upper-cased and
\* stripped, joined with ':'.
NormalizedId(args) ==
    Join([i \in 1..Len(args) |-> Strip(Upper(args[i]))], <<":">>)

\* C22: build_event_id normalises the case and the surrounding whitespace
\* of all its arguments, the type and the scope included: arguments that
\* differ only in these give the one upper-case id
\* ELECTION:US:PRESIDENT:2028:TRUMP.
C22_AllArgumentsNormalized ==
    last_map.op = "build_event_id"
        => /\ last_map.result = NormalizedId(last_map.title)
           /\ last_map.result = EventUsTrump2028

----------------------------------------------------------------------------
(* Claims about the driver loops                                          *)

\* Where the live and the paper _discovery_loop can be: at the loop test
\* or at a step of a tick.
LoopTests == {"loop", "paper_loop"}

TickSteps ==
    {"update_balances", "discover", "process", "update_portfolio", "status",
     "paper_discover", "paper_process", "paper_status"}

InLoop(l) == l.pc \in LoopTests \cup TickSteps

\* A step of a tick was taken.
TickStep ==
    /\ live.pc \in TickSteps
    /\ live'.pc # live.pc \/ live'.next # live.next

\* The step raised an exception that the loop's own except branch took,
\* or one that the except branch around an opportunity took.
TickFailed == TickStep /\ live'.last.step = "except"

OpportunityFailed ==
    /\ TickStep
    /\ \/ live'.last.step = "process_except"
       \/ live.pc = "process" /\ error_counts' # error_counts

\* C21: no exception leaves the live or the paper _discovery_loop.  A
\* step of a tick, raising or not, leaves the engine running as it was
\* and the loop inside itself; an exception of the tick sends the loop to
\* its next test, an exception of an opportunity to the next opportunity
\* with no trade booked; the loop test starts the next tick while the
\* engine is running, and the loop is left only at a loop test that finds
\* the engine stopped.
C21_LoopCatchesAndGoesOn ==
    [][/\ (InLoop(live) /\ ~InLoop(live'))
            => (live.pc \in LoopTests /\ ~live.is_running
                  /\ live'.pc \in {"done", "paper_done"})
       /\ TickStep => (live'.is_running = live.is_running /\ InLoop(live'))
       /\ TickFailed => (live'.pc \in LoopTests /\ live'.ticks = live.ticks + 1)
       /\ OpportunityFailed
            => (/\ live'.next = live.next + 1
                /\ live'.pc \in {"process", "update_portfolio",
                                 "paper_process", "paper_status"}
                /\ ledger' = ledger)
       /\ (live.pc \in LoopTests /\ live'.pc # live.pc)
            => live'.pc = (IF live.pc = "loop"
                           THEN (IF live.is_running THEN "update_balances" ELSE "done")
                           ELSE (IF live.is_running THEN "paper_discover"
                                 ELSE "paper_done"))]_vars

\* The live loop in its second tick, the first having ended in the
\* loop's except branch.
C21_Witness ==
    /\ live.engine = "constructed"
    /\ live.is_running
    /\ live.ticks = 1
    /\ live.pc = "update_balances"
    /\ live.last.step = "except"

====
